---- MODULE Spec2Model ----
(***************************************************************************)
(* A model of the d0-oss data-analyst agent: the phase orchestrator of     *)
(* src/lib/agent.ts, the guarded Snowflake executor of src/lib/snowflake.ts *)
(* (retries, circuit breaker, pool) and the ExecuteSQLWithRepair tools of   *)
(* src/lib/tools/execute-sqlite.ts and src/lib/tools/execute.ts.            *)
(*                                                                         *)
(* The module holds several state machines over disjoint groups of         *)
(* variables; each specification moves one group and leaves the others at   *)
(* their initial value:                                                     *)
(*   Spec         the phase orchestrator (runAgent)                         *)
(*   SpecBreaker  execWithRetry / explainJSON calls sharing the breaker     *)
(*   SpecExec     the ExecuteSQLWithRepair tool wired into the agent        *)
(*   SpecStatement  runStatement: one statement, its timer and its cancel   *)
(*   SpecCacheSize  the result cache of ExecuteSQLWithRepair under many     *)
(*                  distinct texts                                          *)
(*   SpecEntity     loadEntityYaml calls sharing the entity cache           *)
(*   SpecMacro      expandSqlExpression: the calls of one macro expansion   *)
(*   SpecJoin       computeJoinPath over registries, bases and targets      *)
(*   SpecRender     renderSQLFromPlan, then syntaxScan and semanticCheck    *)
(*   SpecGuard      preflightGuard and syntaxScan on the same text          *)
(*   SpecRepair     attemptRepair on one text, plan and driver error        *)
(***************************************************************************)
EXTENDS Integers, Sequences, FiniteSets, TLC

VARIABLES
    \* ---- phase orchestrator (agent.ts) ----
    phase,        \* runAgent's `phase` variable
    pc,           \* "prepare": prepareStep is due; "generate": the LLM step is due; "stopped"
    stepCount,    \* steps.length: the number of completed steps
    resultNames,  \* watched tool names with a tool result in some completed step
    activeTools,  \* the activeTools the last prepareStep returned
    lastCalls,    \* the watched tools the LLM invoked in the last completed step
    validated,    \* per SQL text: <<the latest ValidateSQL result>>, or <<>>
    finalBuild,   \* <<the payload of the latest FinalizeBuild result>>, or <<>>
    furtherPasses \* history, kept while in Building: <<the ValidateSQL results
                  \* after the first that reported issues>>, or <<>>

agentVars == <<phase, pc, stepCount, resultNames, activeTools, lastCalls,
               validated, finalBuild, furtherPasses>>

VARIABLES
    \* ---- guarded Snowflake executor (snowflake.ts) ----
    breaker,            \* the module-scoped breaker: consecutiveFailures, trippedUntil
    now,                \* Date.now(), in ms since the process started
    calls,              \* the execWithRetry / explainJSON calls, by call id
    failsSinceSuccess   \* history: failed attempts recorded since the last recorded success

breakerVars == <<breaker, now, calls, failsSinceSuccess>>

VARIABLES
    \* ---- ExecuteSQLWithRepair (tools/execute-sqlite.ts, sqlite.ts) ----
    queryCache,         \* the module-scoped result cache, by original SQL text
    clock,              \* Date.now() as the tool reads it, in ms
    tcalls              \* the invocations of the tool, by invocation id

execVars == <<queryCache, clock, tcalls>>

VARIABLES
    \* ---- runStatement (snowflake.ts) ----
    stmts,              \* the runStatement calls, by statement id
    stmtNow             \* the time, in ms

statementVars == <<stmts, stmtNow>>

VARIABLES
    \* ---- the result cache under many texts (tools/execute-sqlite.ts) ----
    sizedCache,         \* queryCache, by text (texts are numbered)
    sizedClock,         \* Date.now(), in ms
    sizedCalls          \* the invocations of the tool, by invocation id

cacheSizeVars == <<sizedCache, sizedClock, sizedCalls>>

VARIABLES
    \* ---- loadEntityYaml (semantic/io.ts) ----
    entityCache,        \* per entity name: <<the cached entity object>>, or <<>>
    loads,              \* the loadEntityYaml calls, by call id
    objects             \* the number of entity objects created so far

entityVars == <<entityCache, loads, objects>>

VARIABLES
    \* ---- expandSqlExpression (sql/macros.ts) ----
    frames,             \* the calls of expandSqlExpression under way, outermost first
    macroOut            \* "idle", "running", "returned", or the error thrown

macroVars == <<frames, macroOut>>

VARIABLES
    \* ---- computeJoinPath (join-path module) ----
    joinIn,             \* <<the arguments of the call>>, or <<>>
    joinOut             \* <<what the call returned or threw>>, or <<>>

joinVars == <<joinIn, joinOut>>

VARIABLES
    \* ---- renderSQLFromPlan and its validation (sql/render.ts, sql/validate.ts) ----
    renderIn,           \* <<the plan and the registry of the call>>, or <<>>
    rendered,           \* <<what renderSQLFromPlan returned: <<sql>>, or <<>> when it threw>>
    verdict             \* <<syntaxScan and semanticCheck of the SQL returned>>, or <<>>

renderVars == <<renderIn, rendered, verdict>>

VARIABLES
    \* ---- preflightGuard against syntaxScan ----
    guardIn,            \* <<the text handed to both guards>>, or <<>>
    guardOut            \* <<what each guard said of it>>, or <<>>

guardVars == <<guardIn, guardOut>>

VARIABLES
    \* ---- attemptRepair (lib/execute/repair.ts) ----
    repairIn,           \* <<the text, the plan and the error of the call>>, or <<>>
    repairOut           \* <<what the call returned, and what its strategies found>>, or <<>>

repairVars == <<repairIn, repairOut>>

vars == <<agentVars, breakerVars, execVars, statementVars, cacheSizeVars,
          entityVars, macroVars, joinVars, renderVars, guardVars, repairVars>>

\* What each machine leaves alone.
notAgentVars == <<breakerVars, execVars, statementVars, cacheSizeVars,
                  entityVars, macroVars, joinVars, renderVars, guardVars,
                  repairVars>>
notBreakerVars == <<agentVars, execVars, statementVars, cacheSizeVars,
                    entityVars, macroVars, joinVars, renderVars, guardVars,
                    repairVars>>
notExecVars == <<agentVars, breakerVars, statementVars, cacheSizeVars,
                 entityVars, macroVars, joinVars, renderVars, guardVars,
                 repairVars>>
notStatementVars == <<agentVars, breakerVars, execVars, cacheSizeVars,
                      entityVars, macroVars, joinVars, renderVars, guardVars,
                      repairVars>>
notCacheSizeVars == <<agentVars, breakerVars, execVars, statementVars,
                      entityVars, macroVars, joinVars, renderVars, guardVars,
                      repairVars>>
notEntityVars == <<agentVars, breakerVars, execVars, statementVars,
                   cacheSizeVars, macroVars, joinVars, renderVars, guardVars,
                   repairVars>>
notMacroVars == <<agentVars, breakerVars, execVars, statementVars,
                  cacheSizeVars, entityVars, joinVars, renderVars, guardVars,
                  repairVars>>
notJoinVars == <<agentVars, breakerVars, execVars, statementVars,
                 cacheSizeVars, entityVars, macroVars, renderVars, guardVars,
                 repairVars>>
notRenderVars == <<agentVars, breakerVars, execVars, statementVars,
                   cacheSizeVars, entityVars, macroVars, joinVars, guardVars,
                   repairVars>>
notGuardVars == <<agentVars, breakerVars, execVars, statementVars,
                  cacheSizeVars, entityVars, macroVars, joinVars, renderVars,
                  repairVars>>
notRepairVars == <<agentVars, breakerVars, execVars, statementVars,
                   cacheSizeVars, entityVars, macroVars, joinVars,
                   renderVars, guardVars>>

-----------------------------------------------------------------------------
(* SQL texts.  A text is a sequence of tokens; a keyword token stands for    *)
(* the keyword as a whole word, so a word-bounded regex matches it wherever  *)
(* the token occurs.                                                         *)

DisallowedVerbs == {"DROP", "TRUNCATE", "ALTER", "CREATE", "INSERT", "UPDATE",
                    "DELETE", "MERGE", "COPY", "PUT", "GET"}

CountTok(s, t) == Cardinality({i \in 1..Len(s) : s[i] = t})

HasDisallowedVerb(s) == \E i \in 1..Len(s) : s[i] \in DisallowedVerbs

\* String.prototype.trim: the token "\n" is white space.
RECURSIVE trim(_)
trim(s) ==
    IF s = <<>> THEN s
    ELSE IF Head(s) = "\n" THEN trim(Tail(s))
    ELSE IF s[Len(s)] = "\n" THEN trim(SubSeq(s, 1, Len(s) - 1))
    ELSE s

\* validate.ts syntaxScan: at most one semicolon, and only a trailing one; no
\* disallowed verb; as many block-comment openers as closers.
MultipleStatements(s) ==
    LET semis == CountTok(trim(s), ";")
        endsWithSemi == Len(trim(s)) > 0 /\ trim(s)[Len(trim(s))] = ";"
    IN  semis > 1 \/ (semis = 1 /\ ~endsWithSemi)

UnbalancedComments(s) == CountTok(s, "/*") # CountTok(s, "*/")

syntaxScan(s) ==
    ~MultipleStatements(s) /\ ~HasDisallowedVerb(s) /\ ~UnbalancedComments(s)

-----------------------------------------------------------------------------
(* The phase orchestrator.                                                   *)

PlanningTools == {"ReadEntityYamlRaw", "LoadEntitiesBulk", "ScanEntityProperties",
                  "AssessEntityCoverage", "ClarifyIntent", "SearchCatalog",
                  "SearchSchema", "FinalizePlan", "FinalizeBuild", "FinalizeNoData"}
BuildingTools == {"BuildSQL", "ValidateSQL", "FinalizeBuild"}
ExecutionTools == {"EstimateCost", "ExecuteSQLWithRepair"}
ReportingTools == {"SanityCheck", "FormatResults", "ExplainResults", "FinalizeReport"}

Phases == <<"planning", "building", "execution", "reporting">>

PhaseRank(p) == CHOOSE i \in 1..4 : Phases[i] = p

\* A tool-list slip: the execution tool is left active in Planning.
ActiveToolsOfExecInPlanning(p) ==
    CASE p = "planning" -> PlanningTools \cup {"ExecuteSQLWithRepair"}
      [] p = "building" -> BuildingTools
      [] p = "execution" -> ExecutionTools
      [] OTHER -> ReportingTools

\* The activeTools prepareStep returns for a phase.
ActiveToolsOf(p) ==
    CASE p = "planning" -> PlanningTools
      [] p = "building" -> BuildingTools
      [] p = "execution" -> ExecutionTools
      [] OTHER -> ReportingTools

\* An ordering slip: the ExecuteSQLWithRepair test runs first, so the
\* FinalizeBuild test overrides it.
NextPhaseExecFirst(p, names) ==
    LET p1 == IF "ExecuteSQLWithRepair" \in names THEN "reporting" ELSE p
        p2 == IF "FinalizePlan" \in names THEN "building" ELSE p1
        p3 == IF "FinalizeBuild" \in names THEN "execution" ELSE p2
    IN  p3

\* The three tests prepareStep runs, in order, on the steps' tool results.
NextPhase(p, names) ==
    LET p1 == IF "FinalizePlan" \in names THEN "building" ELSE p
        p2 == IF "FinalizeBuild" \in names THEN "execution" ELSE p1
        p3 == IF "ExecuteSQLWithRepair" \in names THEN "reporting" ELSE p2
    IN  p3

\* stopWhen's first condition: some step holds a result of a terminal tool.
TerminalTools == {"FinalizeReport", "FinalizeNoData", "ClarifyIntent"}

HasTerminalResult(names) == names \cap TerminalTools # {}

\* stopWhen's second condition: stepCountIs(100).
StepCeiling == 100

\* stopWhen without its first condition.
StopWhenCeilingOnly(names, n) == n = StepCeiling

\* stopWhen without stepCountIs.
StopWhenTerminalOnly(names, n) == HasTerminalResult(names)

StopWhen(names, n) == HasTerminalResult(names) \/ n = StepCeiling

\* The SQL texts the LLM hands to ValidateSQL and FinalizeBuild.
AgentSqls == {<<"SELECT", "x">>, <<"DELETE", "x">>}

\* The most tool calls the LLM makes in one step.
MaxCallsPerStep == 2

ValidationOf(syn, sem) == [syntaxOk |-> syn, semanticOk |-> sem]

\* The history of ValidateSQL passes is counted up to this many.
MaxFurtherPasses == 2

\* The history after one more ValidateSQL result: counting starts at the first
\* result that reports issues.
CountPass(h, result) ==
    IF h # <<>> THEN <<IF h[1] < MaxFurtherPasses THEN h[1] + 1 ELSE h[1]>>
    ELSE IF result = ValidationOf(TRUE, TRUE) THEN <<>> ELSE <<0>>

AgentInit ==
    /\ phase = "planning"
    /\ pc = "prepare"
    /\ stepCount = 0
    /\ resultNames = {}
    /\ activeTools = {}
    /\ lastCalls = {}
    /\ validated = [s \in AgentSqls |-> <<>>]
    /\ finalBuild = <<>>
    /\ furtherPasses = <<>>

\* A slip: the phase is derived afresh from the last step's calls alone.
PrepareStepFromLastStep ==
    /\ pc = "prepare"
    /\ phase' = NextPhase("planning", lastCalls)
    /\ activeTools' = ActiveToolsOf(phase')
    /\ pc' = "generate"
    /\ furtherPasses' = IF phase' = "building" THEN furtherPasses ELSE <<>>
    /\ UNCHANGED <<stepCount, resultNames, lastCalls, validated, finalBuild, notAgentVars>>

\* prepareStep: recompute the phase from the completed steps, return the
\* phase's prompt and tool allow-list.
PrepareStep ==
    /\ pc = "prepare"
    /\ phase' = NextPhase(phase, resultNames)
    /\ activeTools' = ActiveToolsOf(phase')
    /\ pc' = "generate"
    /\ furtherPasses' = IF phase' = "building" THEN furtherPasses ELSE <<>>
    /\ UNCHANGED <<stepCount, resultNames, lastCalls, validated, finalBuild, notAgentVars>>

\* The tools whose calls and results the orchestrator and the properties read;
\* the other tools' calls and results leave the orchestrator's state alone.
WatchedTools == {"FinalizePlan", "FinalizeBuild", "ExecuteSQLWithRepair",
                 "ValidateSQL"} \cup TerminalTools

\* The tool-call sets the LLM may issue in one step.
StepCalls(active) == {c \in SUBSET active : Cardinality(c) <= MaxCallsPerStep}

\* ValidateSQL's result for a SQL text and a semantic verdict.
ValidateSQL(sql, sem) == ValidationOf(syntaxScan(sql), sem)

\* FinalizeBuild's result: the input payload, unchanged.
FinalizeBuild(payload) == payload

FinalizeBuildPayloads ==
    {[sql |-> s, validation |-> ValidationOf(a, b)] :
        s \in AgentSqls, a \in BOOLEAN, b \in BOOLEAN}

\* One LLM step: the model calls some of the active tools, each call ends in a
\* tool result or in a tool error (no result), the step is recorded and the
\* stop conditions are evaluated.
RunStep ==
    /\ pc = "generate"
    /\ \E called \in StepCalls(activeTools) : \E ok \in SUBSET called :
       \E v \in (IF "ValidateSQL" \in ok THEN AgentSqls \X BOOLEAN ELSE {<<>>}) :
       \E f \in (IF "FinalizeBuild" \in ok THEN FinalizeBuildPayloads ELSE {<<>>}) :
         /\ lastCalls' = called \cap WatchedTools
         /\ resultNames' = resultNames \cup (ok \cap WatchedTools)
         /\ stepCount' = stepCount + 1
         /\ validated' =
              IF "ValidateSQL" \in ok
              THEN [validated EXCEPT ![v[1]] = <<ValidateSQL(v[1], v[2])>>]
              ELSE validated
         /\ finalBuild' =
              IF "FinalizeBuild" \in ok THEN <<FinalizeBuild(f)>> ELSE finalBuild
         /\ furtherPasses' =
              IF "ValidateSQL" \in ok
              THEN CountPass(furtherPasses, ValidateSQL(v[1], v[2]))
              ELSE furtherPasses
         /\ pc' = IF called = {} \/ StopWhen(resultNames', stepCount')
                  THEN "stopped" ELSE "prepare"
    /\ UNCHANGED <<phase, activeTools, notAgentVars>>

AgentNext == PrepareStep \/ RunStep

-----------------------------------------------------------------------------
(* The guarded executor of snowflake.ts: execWithRetry and explainJSON calls *)
(* that share the module-scoped circuit breaker and the connection pool.     *)
(* Calls interleave at their awaits.                                         *)

\* The number of calls the process makes (each call id is used once).
NumCalls == 2

\* The clock advances in steps of ClockStep ms up to MaxNow.
ClockStep == 60000
MaxNow == 60000

\* generic-pool's max.
PoolMax == 5

\* The cool-down recordFailure adds to Date.now(), and its threshold.
CoolDownMs == 60000
FailureThreshold == 3

CallIds == 1..NumCalls

\* The SQL texts handed to execWithRetry and explainJSON.
ExecSqls == {<<"SELECT", "x">>, <<"DELETE", "x">>}

\* What callers pass as opts.attempts: <<>> when absent, else <<n>>.
AttemptsInputs == {<<>>, <<0>>, <<1>>, <<7>>}

\* The execWithRetry calls made: the accepted text with every attempts option,
\* the text the preflight guard rejects with the default.
ExecInputs ==
    {[sql |-> <<"SELECT", "x">>, attempts |-> a] : a \in AttemptsInputs}
        \cup {[sql |-> <<"DELETE", "x">>, attempts |-> <<>>]}

\* opts.attempts ?? 3
DefaultAttempts == 3
AttemptsOrDefault(opt) == IF opt = <<>> THEN DefaultAttempts ELSE opt[1]

Min(a, b) == IF a < b THEN a ELSE b
Max(a, b) == IF a > b THEN a ELSE b

\* Math.max(1, a): the clamp without its ceiling.
ClampAttemptsNoCeiling(a) == Max(1, a)

\* Math.max(1, Math.min(opts.attempts ?? 3, 5))
ClampAttempts(a) == Max(1, Min(a, 5))

\* isOpen with the `<` turned around.
isOpenReversed(b, t) == t > b.trippedUntil

\* breaker.isOpen(now)
isOpen(b, t) == t < b.trippedUntil

\* recordSuccess closing the breaker but keeping the count.
recordSuccessKeepsCount(b) ==
    [consecutiveFailures |-> b.consecutiveFailures, trippedUntil |-> 0]

\* recordSuccess resetting the count only.
recordSuccessKeepsTrip(b) ==
    [consecutiveFailures |-> 0, trippedUntil |-> b.trippedUntil]

\* breaker.recordSuccess()
recordSuccess(b) == [consecutiveFailures |-> 0, trippedUntil |-> 0]

\* recordFailure tripping one failure early.
recordFailureEarly(b, t) ==
    LET n == b.consecutiveFailures + 1
    IN  [consecutiveFailures |-> n,
         trippedUntil |-> IF n >= FailureThreshold - 1 THEN t + CoolDownMs
                          ELSE b.trippedUntil]

\* breaker.recordFailure(), at time t
recordFailure(b, t) ==
    LET n == b.consecutiveFailures + 1
    IN  [consecutiveFailures |-> n,
         trippedUntil |-> IF n >= FailureThreshold THEN t + CoolDownMs
                          ELSE b.trippedUntil]

\* preflightGuard throws on any semicolon and on any disallowed verb.
preflightGuard(s) == CountTok(s, ";") > 0 \/ HasDisallowedVerb(s)

\* Connections currently acquired from the pool.
RECURSIVE HeldUpTo(_)
HeldUpTo(n) == IF n = 0 THEN 0 ELSE calls[n].held + HeldUpTo(n - 1)

InUse == HeldUpTo(NumCalls)

IdleCall == [kind |-> "none", pc |-> "idle", sql |-> <<>>, requested |-> <<>>,
             attempts |-> 0, attempt |-> 0, held |-> 0, contacts |-> 0,
             lastErr |-> "none"]

\* A call that has returned or thrown: its kind, its outcome and the
\* connections it still holds remain.
Done(kind, at, err, held) ==
    [IdleCall EXCEPT !.kind = kind, !.pc = at, !.lastErr = err, !.held = held]

\* Call ids number the calls in the order in which they start.
StartsNext(c) == \A d \in CallIds : d < c => calls[d].pc # "idle"

BreakerIdle ==
    /\ breaker = [consecutiveFailures |-> 0, trippedUntil |-> 0]
    /\ now = 0
    /\ calls = [c \in CallIds |-> IdleCall]
    /\ failsSinceSuccess = 0

\* Time passes.
Tick ==
    /\ now + ClockStep <= MaxNow
    /\ now' = now + ClockStep
    /\ UNCHANGED <<breaker, calls, failsSinceSuccess, notBreakerVars>>

\* execWithRetry up to its first await: the breaker check, the options, and
\* (attempt 1 has no backoff) the pool's acquire request.
ExecStart(c) ==
    /\ calls[c].pc = "idle" /\ StartsNext(c)
    /\ \E in \in ExecInputs :
         calls' = [calls EXCEPT ![c] =
            IF isOpen(breaker, now)
            THEN Done("exec", "thrown", "breakerOpen", @.held)
            ELSE [@ EXCEPT !.kind = "exec", !.sql = in.sql, !.pc = "acquire",
                           !.requested = in.attempts,
                           !.attempts = ClampAttempts(AttemptsOrDefault(in.attempts)),
                           !.attempt = 1]]
    /\ UNCHANGED <<breaker, now, failsSinceSuccess, notBreakerVars>>

\* explainJSON up to its first await: the breaker check and the acquire request.
ExplainStart(c) ==
    /\ calls[c].pc = "idle" /\ StartsNext(c)
    /\ \E sql \in ExecSqls :
         calls' = [calls EXCEPT ![c] =
            IF isOpen(breaker, now)
            THEN Done("explain", "thrown", "breakerOpen", @.held)
            ELSE [@ EXCEPT !.kind = "explain", !.sql = sql, !.pc = "acquire",
                           !.attempts = 1, !.attempt = 1]]
    /\ UNCHANGED <<breaker, now, failsSinceSuccess, notBreakerVars>>

\* getConnection rejects: the error leaves the call (it is raised outside the try).
AcquireFail(c) ==
    /\ calls[c].pc = "acquire"
    /\ calls' = [calls EXCEPT ![c] = Done(@.kind, "thrown", "acquire", @.held)]
    /\ UNCHANGED <<breaker, now, failsSinceSuccess, notBreakerVars>>

\* getConnection resolves; preflightGuard runs; either it throws (the catch
\* records a failure, the finally starts the release) or the statement is
\* submitted to the driver.
Acquire(c) ==
    /\ calls[c].pc = "acquire"
    /\ InUse < PoolMax
    /\ IF preflightGuard(calls[c].sql)
       THEN /\ calls' = [calls EXCEPT ![c] =
                  [@ EXCEPT !.held = @ + 1, !.pc = "release", !.lastErr = "policy"]]
            /\ breaker' = recordFailure(breaker, now)
            /\ failsSinceSuccess' = failsSinceSuccess + 1
       ELSE /\ calls' = [calls EXCEPT ![c] =
                  [@ EXCEPT !.held = @ + 1, !.pc = "running",
                            !.contacts = @ + 1]]
            /\ UNCHANGED <<breaker, failsSinceSuccess>>
    /\ UNCHANGED <<now, notBreakerVars>>

\* runStatement resolves and the rest of the try succeeds: recordSuccess, and
\* the finally starts the release before the return.
StatementOk(c) ==
    /\ calls[c].pc = "running"
    /\ calls' = [calls EXCEPT ![c] = [@ EXCEPT !.pc = "release", !.lastErr = "none"]]
    /\ breaker' = recordSuccess(breaker)
    /\ failsSinceSuccess' = 0
    /\ UNCHANGED <<now, notBreakerVars>>

\* runStatement rejects ("statement": a driver error or the statement
\* timeout), or explainJSON's JSON.parse throws: the catch records a failure,
\* the finally starts the release.
StatementFail(c) ==
    /\ calls[c].pc = "running"
    /\ \E e \in {"statement"} \cup
               (IF calls[c].kind = "explain" THEN {"parse"} ELSE {}) :
         calls' = [calls EXCEPT ![c] = [@ EXCEPT !.pc = "release", !.lastErr = e]]
    /\ breaker' = recordFailure(breaker, now)
    /\ failsSinceSuccess' = failsSinceSuccess + 1
    /\ UNCHANGED <<now, notBreakerVars>>

\* The call after its finally, holding `held` connections: it has returned,
\* has thrown, or is at the acquire request of its next attempt.
AfterRelease(call, held) ==
    IF call.lastErr = "none" THEN Done(call.kind, "returned", "none", held)
    ELSE IF call.kind = "exec" /\ call.attempt < call.attempts
         THEN [call EXCEPT !.held = held, !.pc = "acquire", !.attempt = @ + 1]
    ELSE Done(call.kind, "thrown", call.lastErr, held)

\* A finally that does not give the connection back.
ReleaseKeepsConnection(c) ==
    /\ calls[c].pc = "release"
    /\ calls' = [calls EXCEPT ![c] = AfterRelease(@, @.held)]
    /\ UNCHANGED <<breaker, now, failsSinceSuccess, notBreakerVars>>

\* releaseConnection settles; the call returns, throws, or goes to its next
\* attempt: the backoff timer and then the next acquire request, which Acquire
\* or AcquireFail answers (nothing of the call changes while the timer runs).
Release(c) ==
    /\ calls[c].pc = "release"
    /\ calls' = [calls EXCEPT ![c] = AfterRelease(@, @.held - 1)]
    /\ UNCHANGED <<breaker, now, failsSinceSuccess, notBreakerVars>>

BreakerNext ==
    \/ Tick
    \/ \E c \in CallIds :
         \/ ExecStart(c)
         \/ ExplainStart(c)
         \/ AcquireFail(c)
         \/ Acquire(c)
         \/ StatementOk(c)
         \/ StatementFail(c)
         \/ Release(c)

-----------------------------------------------------------------------------
(* ExecuteSQLWithRepair as wired into the agent (tools/execute-sqlite.ts),   *)
(* over executeSQL of lib/sqlite.ts and attemptRepair of                     *)
(* lib/execute/repair.ts.  Here a SQL text is a sequence of words: the       *)
(* units a word-bounded regex sees.  A qualified column  t0."name"  is the   *)
(* five words  t0 . " name "  .                                              *)

\* Bounds of the tool machine.
NumToolCalls == 1
CacheClockStep == 150000
CacheMaxNow == 450000

\* Cache settings of the module.
CacheMaxAgeMs == 300000
CacheMaxSize == 100

ToolIds == 1..NumToolCalls

\* The semantic layer on disk: the entity files, their dimensions in file
\* order and their join targets.
EntityFiles == {"accounts", "companies", "events"}
EntityDims == [accounts |-> <<"name">>, companies |-> <<"name", "tier">>,
               events |-> <<>>]
EntityJoins == [accounts |-> {"companies"}, companies |-> {}, events |-> {}]

\* Lexical order of entity names, as Array.prototype.sort gives it.
EntityOrder == <<"accounts", "companies", "events", "ghost", "users">>
AliasNames == <<"t0", "t1", "t2", "t3", "t4">>

\* The plan argument (z.any()): absent, or a FinalizedPlan.
UndefinedPlan == [defined |-> FALSE, selectedEntities |-> <<>>, joinGraph |-> <<>>]
PlanOf(sel) == [defined |-> TRUE, selectedEntities |-> sel, joinGraph |-> <<>>]
ToolPlans == {UndefinedPlan, PlanOf(<<"accounts">>),
              PlanOf(<<"accounts", "events">>), PlanOf(<<"ghost">>)}

\* The SQL texts the model hands to the tool.
ToolSqls == {<<"SELECT", "name", "ORDER BY", "nme">>,
             <<"DELETE", "x">>,
             <<"SELECT", "x", ";", "DELETE", "x">>}

\* What the error classifiers of lib/execute/errors.ts see in a driver
\* error: the missing columns, the ambiguous columns, the timeout mark.
ErrorOf(cnf, amb, to) == [cnf |-> cnf, amb |-> amb, to |-> to]
PlainError == ErrorOf(<<>>, <<>>, FALSE)
DriverErrors == {ErrorOf(<<"nme">>, <<>>, FALSE), ErrorOf(<<>>, <<"name">>, FALSE),
                 ErrorOf(<<>>, <<>>, TRUE), PlainError}

Range(q) == {q[i] : i \in 1..Len(q)}

RECURSIVE Dedup(_)
Dedup(q) ==
    IF q = <<>> THEN <<>>
    ELSE LET front == Dedup(SubSeq(q, 1, Len(q) - 1))
             x == q[Len(q)]
         IN  IF x \in Range(front) THEN front ELSE Append(front, x)

RECURSIVE Endpoints(_)
Endpoints(edges) ==
    IF edges = <<>> THEN <<>>
    ELSE <<edges[1][1], edges[1][2]>> \o Endpoints(Tail(edges))

\* buildRegistryFromPlan: the entities to load, in Map insertion order.
NeededEntities(plan) == Dedup(plan.selectedEntities \o Endpoints(plan.joinGraph))

\* loadEntityYaml throws for an entity without a (valid) file.
LoadFails(plan) == \E e \in Range(NeededEntities(plan)) : e \notin EntityFiles

\* buildGraph: undirected edges from the joins of the registry's entities.
Adjacent(reg, n) ==
    {m \in DOMAIN EntityJoins :
        \/ n \in reg /\ n \in DOMAIN EntityJoins /\ m \in EntityJoins[n]
        \/ m \in reg /\ n \in EntityJoins[m]}

\* shortestPath: breadth-first search; -1 when the goal is not reached.
RECURSIVE PathLength(_, _, _, _, _)
PathLength(reg, frontier, seen, goal, d) ==
    IF goal \in frontier THEN d
    ELSE LET nxt == UNION {Adjacent(reg, n) : n \in frontier} \ seen
         IN  IF nxt = {} THEN -1
             ELSE PathLength(reg, nxt, seen \cup nxt, goal, d + 1)

Distance(reg, a, b) == PathLength(reg, {a}, {a}, b, 0)

BaseEntity(plan) ==
    IF Len(plan.selectedEntities) > 0 THEN plan.selectedEntities[1] ELSE "undefined"

\* computeJoinPath throws when a required entity has no path from the base.
JoinPathFails(plan) ==
    LET reg == Range(NeededEntities(plan))
        base == BaseEntity(plan)
    IN  \E e \in Range(plan.selectedEntities) :
            e # base /\ Distance(reg, base, e) = -1

attemptRepairThrows(plan) == ~plan.defined \/ LoadFails(plan) \/ JoinPathFails(plan)

\* Whether entity n lies on the path from a to b (the paths of this semantic
\* layer are unique).
OnPath(reg, a, n, b) ==
    /\ Distance(reg, a, n) >= 0 /\ Distance(reg, n, b) >= 0
    /\ Distance(reg, a, n) + Distance(reg, n, b) = Distance(reg, a, b)

\* computeJoinPath: the entities on the paths from the base to the required
\* entities, the base left out.
JoinedEntities(plan) ==
    {n \in DOMAIN EntityJoins \ {BaseEntity(plan)} :
        \E e \in Range(plan.selectedEntities) \ {BaseEntity(plan)} :
            OnPath(Range(NeededEntities(plan)), BaseEntity(plan), n, e)}

EntityRank(e) == CHOOSE i \in 1..Len(EntityOrder) : EntityOrder[i] = e

\* The alias of entity e among the joined entities: t1.. in lexical order.
AliasAmong(others, e) ==
    IF e \in others
    THEN AliasNames[Cardinality({o \in others : EntityRank(o) < EntityRank(e)}) + 2]
    ELSE "undefined"

\* aliasByEntity.get(e): the base is t0; "undefined" off the join path.
AliasOf(plan, e) ==
    IF e = BaseEntity(plan) THEN AliasNames[1] ELSE AliasAmong(JoinedEntities(plan), e)

\* The qualified column  alias."field"  as words.
Qualified(alias, field) == <<alias, ".", "\"", field, "\"">>

\* The characters of the identifiers of the model (all lower-case and
\* unquoted, so normalize leaves them as they are).
Chars == [nme |-> <<"n", "m", "e">>, name |-> <<"n", "a", "m", "e">>,
          tier |-> <<"t", "i", "e", "r">>, x |-> <<"x">>, tr |-> <<"t", "r">>]

\* levenshtein: the table dp of the code, filled row by row.  FillRow
\* extends row i (row[j] is dp[i][j-1]) from the row above it; every entry
\* is computed once, bound as a value, and handed on.
RECURSIVE FillRow(_, _, _, _, _)
FillRow(row, prev, ch, b, j) ==
    IF j > Len(b) THEN row
    ELSE CHOOSE r \in {FillRow(Append(row, v), prev, ch, b, j + 1) :
                         v \in {Min(Min(prev[j + 1] + 1, row[j] + 1),
                                    prev[j] + (IF ch = b[j] THEN 0 ELSE 1))}} : TRUE

RECURSIVE LastRow(_, _, _, _)
LastRow(prev, a, b, i) ==
    IF i > Len(a) THEN prev
    ELSE CHOOSE r \in {LastRow(row, a, b, i + 1) :
                         row \in {FillRow(<<i>>, prev, a[i], b, 1)}} : TRUE

levenshtein(a, b) == LastRow([j \in 1..(Len(b) + 1) |-> j - 1], a, b, 1)[Len(b) + 1]

\* The distances between the identifiers of the model.
Distances == [a \in DOMAIN Chars |-> [b \in DOMAIN Chars |->
                levenshtein(Chars[a], Chars[b])]]

\* The candidates of bestColumnMatch: <<i, j>> is dimension j of the i-th
\* entity of the registry.
ColumnCandidates(reg) ==
    {p \in (1..Len(reg)) \X (1..2) : p[2] <= Len(EntityDims[reg[p[1]]])}

ColumnScore(target, reg, p) == Distances[target][EntityDims[reg[p[1]]][p[2]]]

\* score < best.score keeps the first of the candidates at the least distance.
FirstBest(target, reg, cands) ==
    CHOOSE p \in cands : \A q \in cands :
        \/ ColumnScore(target, reg, q) > ColumnScore(target, reg, p)
        \/ /\ ColumnScore(target, reg, q) = ColumnScore(target, reg, p)
           /\ (p[1] < q[1] \/ (p[1] = q[1] /\ p[2] <= q[2]))

\* A match accepted only within both limits.
AcceptMatchWithinBoth(target, reg, p, score) ==
    IF score <= 3 /\ score <= (3 * Len(Chars[target]) + 9) \div 10
    THEN <<[entity |-> reg[p[1]], field |-> EntityDims[reg[p[1]]][p[2]]]>>
    ELSE <<>>

\* The match is accepted at distance at most 3, or at most 30% of the length
\* of the needle.
AcceptMatch(target, reg, p, score) ==
    IF score <= 3 \/ score <= (3 * Len(Chars[target]) + 9) \div 10
    THEN <<[entity |-> reg[p[1]], field |-> EntityDims[reg[p[1]]][p[2]]]>>
    ELSE <<>>

BestAmong(target, reg, cands) ==
    IF cands = {} THEN <<>>
    ELSE CHOOSE m \in {AcceptMatch(target, reg, p, ColumnScore(target, reg, p)) :
                         p \in {FirstBest(target, reg, cands)}} : TRUE

\* bestColumnMatch: <<>> for null, or <<[entity, field]>>.
bestColumnMatch(target, plan) ==
    BestAmong(target, NeededEntities(plan), ColumnCandidates(NeededEntities(plan)))

\* slice.match(pattern).index for the pattern  new RegExp(`\\b${ident}\\b`, "g"):
\* a match with a global pattern returns the matched strings alone, an array
\* without `index`, so the property is undefined (<<>>) also where the
\* identifier starts the slice.
GlobalMatchIndex(slice, ident) == <<>>

\* qualifyIdentifier: the text is copied token by token; outside a
\* single-quoted literal the qualified column is written in place of the
\* identifier where the match at that place has index 0.
RECURSIVE qualifyFrom(_, _, _, _)
qualifyFrom(sql, ident, qualified, inString) ==
    IF sql = <<>> THEN <<>>
    ELSE LET ins == IF Head(sql) = "'" THEN ~inString ELSE inString
         IN  IF ~ins /\ GlobalMatchIndex(sql, ident) = <<0>>
             THEN qualified \o qualifyFrom(Tail(sql), ident, qualified, ins)
             ELSE <<Head(sql)>> \o qualifyFrom(Tail(sql), ident, qualified, ins)

qualifyIdentifier(sql, ident, qualified) == qualifyFrom(sql, ident, qualified, FALSE)

IsNumber(w) == w \in {"5", "1001"}

\* /limit\s+\d+/i
HasLimit(s) == \E i \in 1..(Len(s) - 1) : s[i] = "LIMIT" /\ IsNumber(s[i + 1])

\* The least index of a set of indexes: the first match of a regex.
FirstIndex(S) == CHOOSE k \in S : \A m \in S : k <= m

\* The indexes after i where a line starts with LIMIT n.
LimitLines(s, i) ==
    {j \in (i + 1)..(Len(s) - 2) :
        s[j] = "\n" /\ s[j + 1] = "LIMIT" /\ IsNumber(s[j + 2])}

\* The text without what the regex matched from the ORDER BY at index i on.
CutOrderBy(s, i, lims) ==
    IF lims = {} THEN SubSeq(s, 1, i - 1)
    ELSE SubSeq(s, 1, i - 1) \o SubSeq(s, FirstIndex(lims), Len(s))

OrderByAt(s) == {i \in 1..Len(s) : s[i] = "ORDER BY"}

\* dropOrderBy: the first ORDER BY and what follows it go, up to the end of
\* the text or to the first LIMIT n that starts a line, which stays.
dropOrderBy(s) ==
    IF OrderByAt(s) = {} THEN trim(s)
    ELSE trim(CutOrderBy(s, FirstIndex(OrderByAt(s)),
                         LimitLines(s, FirstIndex(OrderByAt(s)))))

\* One missing column: substituted when it has a close match whose entity
\* has an alias.
QualifyOne(sql, plan, miss, best) ==
    IF best = <<>> THEN sql
    ELSE IF AliasOf(plan, best[1].entity) = "undefined" THEN sql
    ELSE qualifyIdentifier(sql, miss,
             Qualified(AliasOf(plan, best[1].entity), best[1].field))

HasQualified(plan, best) ==
    IF best = <<>> THEN FALSE ELSE AliasOf(plan, best[1].entity) # "undefined"

AndAny(rest, any) == [fixed |-> rest.fixed, any |-> rest.any \/ any]

\* The column-not-found strategy, over the missing columns in order.
RECURSIVE qualifyMissing(_, _, _)
qualifyMissing(sql, plan, cols) ==
    IF cols = <<>> THEN [fixed |-> sql, any |-> FALSE]
    ELSE AndAny(qualifyMissing(QualifyOne(sql, plan, Head(cols),
                                          bestColumnMatch(Head(cols), plan)),
                               plan, Tail(cols)),
                HasQualified(plan, bestColumnMatch(Head(cols), plan)))

\* The loaded entities with a dimension of that name.
Owners(plan, col) ==
    {e \in Range(NeededEntities(plan)) : col \in Range(EntityDims[e])}

\* Any owner at all.
SomeOwner(owners) == Cardinality(owners) >= 1

\* owners.length === 1
UniqueOwner(owners) == Cardinality(owners) = 1

\* One ambiguous column: qualified when exactly one loaded entity owns it.
QualifyOwned(sql, plan, col, owners) ==
    IF UniqueOwner(owners)
    THEN qualifyIdentifier(sql, col,
             Qualified(AliasOf(plan, CHOOSE e \in owners : TRUE), col))
    ELSE sql

\* The ambiguous-column strategy, over the columns in order.
RECURSIVE qualifyAmbiguous(_, _, _)
qualifyAmbiguous(sql, plan, cols) ==
    IF cols = <<>> THEN [fixed |-> sql, any |-> FALSE]
    ELSE AndAny(qualifyAmbiguous(QualifyOwned(sql, plan, Head(cols),
                                              Owners(plan, Head(cols))),
                                 plan, Tail(cols)),
                UniqueOwner(Owners(plan, Head(cols))))

Repair(sql, reason) == <<[fixedSql |-> sql, reason |-> reason]>>

\* The timeout strategy: a LIMIT is added when there is none, and the
\* ORDER BY is dropped.
LimitNoOrder(sql) ==
    dropOrderBy(IF HasLimit(sql) THEN sql ELSE sql \o <<"\n", "LIMIT", "1001">>)

\* The first strategy that applies and changes the text.
FirstStrategy(sql, err, m, a) ==
    IF Len(err.cnf) > 0 /\ m.any /\ m.fixed # sql THEN Repair(m.fixed, "missing")
    ELSE IF Len(err.amb) > 0 /\ a.any /\ a.fixed # sql THEN Repair(a.fixed, "ambiguous")
    ELSE IF err.to THEN Repair(LimitNoOrder(sql), "timeout")
    ELSE <<>>

\* attemptRepair, once the registry and the join path were built: <<>> for
\* null, else the candidate and the reason.
attemptRepair(sql, plan, err) ==
    FirstStrategy(sql, err, qualifyMissing(sql, plan, err.cnf),
                  qualifyAmbiguous(sql, plan, err.amb))

\* The entries older than the maximum age go.
Expire(cache, t) ==
    [k \in DOMAIN cache |->
        IF cache[k] = <<>> THEN <<>>
        ELSE IF t - cache[k][1].cachedAt > CacheMaxAgeMs THEN <<>> ELSE cache[k]]

CachedKeys(cache) == {k \in DOMAIN cache : cache[k] # <<>>}

\* An entry with the least cachedAt.
Oldest(cache) ==
    CHOOSE k \in CachedKeys(cache) :
        \A l \in CachedKeys(cache) : cache[k][1].cachedAt <= cache[l][1].cachedAt

\* The n oldest entries go.
RECURSIVE Evict(_, _)
Evict(cache, n) ==
    IF n <= 0 THEN cache
    ELSE Evict([cache EXCEPT ![Oldest(cache)] = <<>>], n - 1)

\* cleanExpiredCache: expiry first, then the size limit.
SizeLimit(cache) == Evict(cache, Cardinality(CachedKeys(cache)) - CacheMaxSize)

cleanExpiredCache(cache, t) == SizeLimit(Expire(cache, t))

\* executeSQL: sql.trim().toUpperCase().startsWith("SELECT")
isSelect(s) == trim(s) # <<>> /\ Head(trim(s)) = "SELECT"

\* executeSQL hands every text to db.prepare and then calls all() for a
\* SELECT and run() for anything else.
DriverCall(s) == IF isSelect(s) THEN "all" ELSE "run"

\* What the driver can answer to a text: rows, or an error; prepare always
\* refuses a text of several statements.
DriverSucceeds(s) == ~MultipleStatements(s)
DriverFailures(s) == IF MultipleStatements(s) THEN {PlainError} ELSE DriverErrors

\* What execute returns.  rows stands for the rows of an execution: the text
\* whose execution produced them.
NoResult == [kind |-> "none", attemptedSql |-> <<>>, repaired |-> FALSE,
             fromCache |-> FALSE, rows |-> <<>>]
ResultOf(kind, sql, repaired, fromCache) ==
    [kind |-> kind, attemptedSql |-> sql, repaired |-> repaired,
     fromCache |-> fromCache, rows |-> IF kind = "rows" THEN sql ELSE <<>>]

\* The return of a cache hit: the rows of the entry.
CachedResult(sql, entry) ==
    [ResultOf("rows", sql, FALSE, TRUE) EXCEPT !.rows = entry.rows]

\* repairs: the calls of attemptRepair made; executed: the texts handed to
\* tryExec; stale: the invocation found an entry for its text that was too old
\* and removed it.
IdleTool == [pc |-> "idle", sql |-> <<>>, plan |-> UndefinedPlan, cand |-> <<>>,
             attempt |-> 0, result |-> NoResult, repairs |-> 0, executed |-> 0,
             stale |-> FALSE]

\* An invocation that returned (or threw) keeps its result and what it did.
Finished(at, result, repairs, executed) ==
    [IdleTool EXCEPT !.pc = at, !.result = result, !.repairs = repairs,
                     !.executed = executed]

ExecIdle ==
    /\ queryCache = [s \in ToolSqls |-> <<>>]
    /\ clock = 0
    /\ tcalls = [t \in ToolIds |-> IdleTool]

ExecTick ==
    /\ clock + CacheClockStep <= CacheMaxNow
    /\ clock' = clock + CacheClockStep
    /\ UNCHANGED <<queryCache, tcalls, notExecVars>>

\* A lookup that does not look at the age.
CacheHitAnyAge(cache, sql, t) == cache[sql] # <<>>

\* A lookup that never hits.
CacheHitNever(cache, sql, t) == FALSE

\* queryCache.has(cacheKey) and age < CACHE_MAX_AGE_MS
CacheHit(cache, sql, t) == cache[sql] # <<>> /\ t - cache[sql][1].cachedAt < CacheMaxAgeMs

\* execute, up to the return of the cached rows.
ToolCacheHit(t) ==
    /\ tcalls[t].pc = "idle"
    /\ \E sql \in ToolSqls : \E cleaned \in {cleanExpiredCache(queryCache, clock)} :
            /\ CacheHit(cleaned, sql, clock)
            /\ queryCache' = cleaned
            /\ tcalls' = [tcalls EXCEPT ![t] =
                  Finished("done", CachedResult(sql, cleaned[sql][1]), 0, 0)]
    /\ UNCHANGED <<clock, notExecVars>>

\* execute, up to the first await: the cache misses and the original text
\* goes to executeSQL, which calls the driver before it yields.
ToolStart(t) ==
    /\ tcalls[t].pc = "idle"
    /\ \E sql \in ToolSqls, plan \in ToolPlans :
        \E cleaned \in {cleanExpiredCache(queryCache, clock)} :
            /\ ~CacheHit(cleaned, sql, clock)
            /\ queryCache' = [cleaned EXCEPT ![sql] = <<>>]
            /\ tcalls' = [tcalls EXCEPT ![t] =
                  [IdleTool EXCEPT !.pc = "await", !.sql = sql, !.plan = plan,
                      !.cand = sql, !.executed = 1,
                      !.stale = (queryCache[sql] # <<>>)]]
    /\ UNCHANGED <<clock, notExecVars>>

\* The awaited tryExec resolved: the rows are cached under the original
\* text and returned.
ExecSucceeds(t) ==
    /\ tcalls[t].pc = "await" /\ DriverSucceeds(tcalls[t].cand)
    /\ queryCache' = [queryCache EXCEPT ![tcalls[t].sql] =
                        <<[rows |-> tcalls[t].cand, cachedAt |-> clock]>>]
    /\ tcalls' = [tcalls EXCEPT ![t] = Finished("done",
          ResultOf("rows", @.cand, @.attempt > 0, FALSE), @.repairs, @.executed)]
    /\ UNCHANGED <<clock, notExecVars>>

\* The awaited tryExec rejected and attemptRepair throws while it builds the
\* registry or the join path: the rejection leaves execute.
RepairThrows(t) ==
    /\ tcalls[t].pc = "await" /\ tcalls[t].attempt < 2
    /\ DriverFailures(tcalls[t].cand) # {}
    /\ attemptRepairThrows(tcalls[t].plan)
    /\ tcalls' = [tcalls EXCEPT ![t] = Finished("threw",
          ResultOf("threw", @.cand, @.attempt > 0, FALSE), @.repairs + 1,
          @.executed)]
    /\ UNCHANGED <<queryCache, clock, notExecVars>>

\* !r?.fixedSql
NoCandidate(r) == IF r = <<>> THEN TRUE ELSE r[1].fixedSql = <<>>

\* attemptRepair has no candidate: the failure is returned.
RepairGivesUp(t) ==
    /\ tcalls[t].pc = "await" /\ tcalls[t].attempt < 2
    /\ ~attemptRepairThrows(tcalls[t].plan)
    /\ \E err \in DriverFailures(tcalls[t].cand) :
          NoCandidate(attemptRepair(tcalls[t].cand, tcalls[t].plan, err))
    /\ tcalls' = [tcalls EXCEPT ![t] = Finished("done",
          ResultOf("failed", @.cand, @.attempt > 0, FALSE), @.repairs + 1,
          @.executed)]
    /\ UNCHANGED <<queryCache, clock, notExecVars>>

\* A repair loop with no last attempt: every failure is repaired again.
RepairRetriesWithoutEnd(t) ==
    /\ tcalls[t].pc = "await"
    /\ ~attemptRepairThrows(tcalls[t].plan)
    /\ \E err \in DriverFailures(tcalls[t].cand) :
        \E r \in {attemptRepair(tcalls[t].cand, tcalls[t].plan, err)} :
            /\ ~NoCandidate(r)
            /\ tcalls' = [tcalls EXCEPT ![t] = [@ EXCEPT !.cand = r[1].fixedSql,
                                                  !.attempt = @ + 1,
                                                  !.repairs = @ + 1,
                                                  !.executed = @ + 1]]
    /\ UNCHANGED <<queryCache, clock, notExecVars>>

\* attemptRepair has a candidate, which goes to executeSQL.
RepairRetries(t) ==
    /\ tcalls[t].pc = "await" /\ tcalls[t].attempt < 2
    /\ ~attemptRepairThrows(tcalls[t].plan)
    /\ \E err \in DriverFailures(tcalls[t].cand) :
        \E r \in {attemptRepair(tcalls[t].cand, tcalls[t].plan, err)} :
            /\ ~NoCandidate(r)
            /\ tcalls' = [tcalls EXCEPT ![t] = [@ EXCEPT !.cand = r[1].fixedSql,
                                                  !.attempt = @ + 1,
                                                  !.repairs = @ + 1,
                                                  !.executed = @ + 1]]
    /\ UNCHANGED <<queryCache, clock, notExecVars>>

\* A last catch that stores the failed candidate before it returns.
LastAttemptFailsAndCaches(t) ==
    /\ tcalls[t].pc = "await" /\ tcalls[t].attempt = 2
    /\ DriverFailures(tcalls[t].cand) # {}
    /\ queryCache' = [queryCache EXCEPT ![tcalls[t].sql] =
                        <<[rows |-> tcalls[t].cand, cachedAt |-> clock]>>]
    /\ tcalls' = [tcalls EXCEPT ![t] = Finished("done",
          ResultOf("failed", @.cand, TRUE, FALSE), @.repairs, @.executed)]
    /\ UNCHANGED <<clock, notExecVars>>

\* The second repaired candidate failed too: the failure is returned.
LastAttemptFails(t) ==
    /\ tcalls[t].pc = "await" /\ tcalls[t].attempt = 2
    /\ DriverFailures(tcalls[t].cand) # {}
    /\ tcalls' = [tcalls EXCEPT ![t] = Finished("done",
          ResultOf("failed", @.cand, TRUE, FALSE), @.repairs, @.executed)]
    /\ UNCHANGED <<queryCache, clock, notExecVars>>

\* The invocation is over; a later invocation takes its place.
ToolReturn(t) ==
    /\ tcalls[t].pc \in {"done", "threw"}
    /\ tcalls' = [tcalls EXCEPT ![t] = IdleTool]
    /\ UNCHANGED <<queryCache, clock, notExecVars>>

ExecNext ==
    \/ ExecTick
    \/ \E t \in ToolIds :
         \/ ToolCacheHit(t)
         \/ ToolStart(t)
         \/ ExecSucceeds(t)
         \/ RepairThrows(t)
         \/ RepairGivesUp(t)
         \/ RepairRetries(t)
         \/ LastAttemptFails(t)
         \/ ToolReturn(t)

-----------------------------------------------------------------------------
(* The specifications.                                                       *)

-----------------------------------------------------------------------------
(* runStatement of snowflake.ts: one conn.execute with its complete          *)
(* callback, the timeout timer, and the cancel the timer asks for.  The      *)
(* driver decides when and with what it calls back.                          *)

\* The number of runStatement calls.
NumStatements == 2

\* The time advances in steps of StmtClockStep ms up to StmtMaxNow.
StmtClockStep == 10000
StmtMaxNow == 30000

\* opts.timeoutMs ?? 20_000
StatementTimeoutMs == 20000

StmtIds == 1..NumStatements

\* Error messages, as sequences of words.
TimeoutMessage == <<"Statement", "timeout", "after", "20000ms">>

\* What the driver reports to `complete` when a statement fails.
CompleteErrors == {<<"SQL", "compilation", "error">>}

\* What the driver reports to the callback of stmt.cancel when it could not
\* cancel.
CancelErrors == {<<"Network", "error">>, <<"Request", "Timeout">>}

\* The lower-case form of a word (the classifier's regexes carry the i flag).
LowerCase(w) ==
    CASE w = "Timeout" -> "timeout"
      [] w = "Statement" -> "statement"
      [] w = "Network" -> "network"
      [] w = "Request" -> "request"
      [] w = "SQL" -> "sql"
      [] OTHER -> w

\* errors.ts isTimeout: /timeout/i or /Statement timeout/i matches the message.
isTimeout(msg) ==
    \/ \E i \in 1..Len(msg) : LowerCase(msg[i]) = "timeout"
    \/ \E i \in 1..(Len(msg) - 1) :
          LowerCase(msg[i]) = "statement" /\ LowerCase(msg[i + 1]) = "timeout"

\* promise: "none" before the call, then "pending", "resolved" or "rejected";
\* error: <<the rejection's message>>; timer: "none", "armed", "fired" or
\* "cleared"; driver: "none", "running", or "called" once `complete` was called;
\* cancel: "none", "asked" (stmt.cancel was called and owes its callback),
\* "threw" or "answered".
IdleStatement == [promise |-> "none", error |-> <<>>, cancelled |-> FALSE,
                  timer |-> "none", driver |-> "none", cancel |-> "none",
                  startedAt |-> 0]

StatementIdle ==
    /\ stmts = [s \in StmtIds |-> IdleStatement]
    /\ stmtNow = 0

\* A resolve that was not patched: the timer stays armed.
ResolvedKeepsTimer(st) ==
    [st EXCEPT !.promise = IF @ = "pending" THEN "resolved" ELSE @]

\* The patched resolve: clears the timer, settles a pending promise.
Resolved(st) ==
    [st EXCEPT !.promise = IF @ = "pending" THEN "resolved" ELSE @,
               !.timer = IF @ = "armed" THEN "cleared" ELSE @]

\* The patched reject: clears the timer, settles a pending promise with msg.
Rejected(st, msg) ==
    [st EXCEPT !.promise = IF @ = "pending" THEN "rejected" ELSE @,
               !.error = IF st.promise = "pending" THEN <<msg>> ELSE @,
               !.timer = IF @ = "armed" THEN "cleared" ELSE @]

\* The rejection of the cancel callback: cancelErr ?? the timeout error.
CancelRejection(cancelErr) ==
    IF cancelErr = <<>> THEN TimeoutMessage ELSE cancelErr[1]

StmtTick ==
    /\ stmtNow + StmtClockStep <= StmtMaxNow
    /\ stmtNow' = stmtNow + StmtClockStep
    /\ UNCHANGED <<stmts, notStatementVars>>

\* runStatement: conn.execute is called and the timer is set.
RunStatement(s) ==
    /\ stmts[s].promise = "none"
    /\ stmts' = [stmts EXCEPT ![s] =
          [@ EXCEPT !.promise = "pending", !.timer = "armed",
                    !.driver = "running", !.startedAt = stmtNow]]
    /\ UNCHANGED <<stmtNow, notStatementVars>>

\* The driver calls `complete`, with an error or with rows; after the timer
\* has set `cancelled` the callback does nothing.
Complete(s) ==
    /\ stmts[s].driver = "running"
    /\ \E err \in {<<>>} \cup {<<e>> : e \in CompleteErrors} :
         stmts' = [stmts EXCEPT ![s] =
            IF stmts[s].cancelled THEN [@ EXCEPT !.driver = "called"]
            ELSE IF err # <<>>
                 THEN [Rejected(@, err[1]) EXCEPT !.driver = "called"]
            ELSE [Resolved(@) EXCEPT !.driver = "called"]]
    /\ UNCHANGED <<stmtNow, notStatementVars>>

\* The timer fires at or after the deadline: `cancelled` is set and
\* stmt.cancel is called; it either throws (the catch rejects with the
\* timeout error) or takes the callback.
TimerFires(s) ==
    /\ stmts[s].timer = "armed"
    /\ stmtNow >= stmts[s].startedAt + StatementTimeoutMs
    /\ \E throws \in BOOLEAN :
         stmts' = [stmts EXCEPT ![s] =
            IF throws
            THEN [Rejected([@ EXCEPT !.timer = "fired"], TimeoutMessage)
                    EXCEPT !.cancelled = TRUE, !.cancel = "threw"]
            ELSE [@ EXCEPT !.timer = "fired", !.cancelled = TRUE,
                           !.cancel = "asked"]]
    /\ UNCHANGED <<stmtNow, notStatementVars>>

\* The driver calls the callback of stmt.cancel, with an error or without.
CancelAnswered(s) ==
    /\ stmts[s].cancel = "asked"
    /\ \E cancelErr \in {<<>>} \cup {<<e>> : e \in CancelErrors} :
         stmts' = [stmts EXCEPT ![s] =
            [Rejected(@, CancelRejection(cancelErr)) EXCEPT !.cancel = "answered"]]
    /\ UNCHANGED <<stmtNow, notStatementVars>>

StatementNext ==
    \/ StmtTick
    \/ \E s \in StmtIds :
         \/ RunStatement(s)
         \/ Complete(s)
         \/ TimerFires(s)
         \/ CancelAnswered(s)

-----------------------------------------------------------------------------
(* The result cache of ExecuteSQLWithRepair when many distinct texts are     *)
(* executed: the same cleanExpiredCache, lookup and insert, with texts       *)
(* reduced to numbers and an execution to its outcome (a success, after the  *)
(* original or a repaired candidate, or a failure).                          *)

\* The number of invocations that can be under way at once.
NumSizedCalls == 1

\* The clock advances in steps of SizedClockStep ms up to SizedMaxNow.
SizedClockStep == 400000
SizedMaxNow == 400000

SizedIds == 1..NumSizedCalls

\* The texts: one more than the cache is meant to hold.
SizedTexts == 1..(CacheMaxSize + 1)

IdleSized == [pc |-> "idle", sql |-> 0, fromCache |-> FALSE]

CacheSizeIdle ==
    /\ sizedCache = [k \in SizedTexts |-> <<>>]
    /\ sizedClock = 0
    /\ sizedCalls = [c \in SizedIds |-> IdleSized]

\* The texts an invocation is given: the first text, or the first text that
\* has no entry.
SizedInputs(cache) ==
    {1} \cup {k \in SizedTexts : cache[k] = <<>> /\ \A l \in 1..(k - 1) : cache[l] # <<>>}

SizedTick ==
    /\ sizedClock + SizedClockStep <= SizedMaxNow
    /\ sizedClock' = sizedClock + SizedClockStep
    /\ UNCHANGED <<sizedCache, sizedCalls, notCacheSizeVars>>

\* execute, up to the return of the cached rows.
SizedHit(c) ==
    /\ sizedCalls[c].pc = "idle"
    /\ \E cleaned \in {cleanExpiredCache(sizedCache, sizedClock)} :
        \E sql \in SizedInputs(sizedCache) :
            /\ CacheHit(cleaned, sql, sizedClock)
            /\ sizedCache' = cleaned
            /\ sizedCalls' = [sizedCalls EXCEPT ![c] =
                  [pc |-> "idle", sql |-> sql, fromCache |-> TRUE]]
    /\ UNCHANGED <<sizedClock, notCacheSizeVars>>

\* execute, up to the first await: the lookup misses, the text is executed.
SizedMiss(c) ==
    /\ sizedCalls[c].pc = "idle"
    /\ \E cleaned \in {cleanExpiredCache(sizedCache, sizedClock)} :
        \E sql \in SizedInputs(sizedCache) :
            /\ ~CacheHit(cleaned, sql, sizedClock)
            /\ sizedCache' = [cleaned EXCEPT ![sql] = <<>>]
            /\ sizedCalls' = [sizedCalls EXCEPT ![c] =
                  [pc |-> "await", sql |-> sql, fromCache |-> FALSE]]
    /\ UNCHANGED <<sizedClock, notCacheSizeVars>>

\* An execution succeeded: queryCache.set under the original text, return.
SizedSucceeds(c) ==
    /\ sizedCalls[c].pc = "await"
    /\ sizedCache' = [sizedCache EXCEPT ![sizedCalls[c].sql] =
                        <<[rows |-> sizedCalls[c].sql, cachedAt |-> sizedClock]>>]
    /\ sizedCalls' = [sizedCalls EXCEPT ![c] = [@ EXCEPT !.pc = "idle"]]
    /\ UNCHANGED <<sizedClock, notCacheSizeVars>>

\* The executions failed: ok:false is returned, nothing is stored.
SizedFails(c) ==
    /\ sizedCalls[c].pc = "await"
    /\ sizedCalls' = [sizedCalls EXCEPT ![c] = [@ EXCEPT !.pc = "idle"]]
    /\ UNCHANGED <<sizedCache, sizedClock, notCacheSizeVars>>

CacheSizeNext ==
    \/ SizedTick
    \/ \E c \in SizedIds :
         \/ SizedHit(c)
         \/ SizedMiss(c)
         \/ SizedSucceeds(c)
         \/ SizedFails(c)

-----------------------------------------------------------------------------
(* loadEntityYaml of semantic/io.ts: calls that share the module-scoped      *)
(* entityCache and interleave at the await of the file read.  An entity      *)
(* object is known by its identity: the n-th object literal evaluated.       *)

\* The number of loadEntityYaml calls.
NumLoads == 3

LoadIds == 1..NumLoads

\* A well-formed entity file: joins by the local column of each join,
\* metrics by type and source (<<>> when the source is absent).
GoodYaml ==
    [raw |-> "yaml", schemaOk |-> TRUE, dims |-> {"id", "name"},
     timeDims |-> {"created_at"}, measures |-> {"count"}, joinsFrom |-> {"id"},
     metrics |-> {[type |-> "atomic",
                   source |-> <<[measure |-> "count", anchor_date |-> "created_at",
                                 filterFields |-> {"name"}]>>],
                  [type |-> "derived", source |-> <<>>]}]

\* The entity files on disk, by name: two well-formed ones, none for "ghost",
\* and one for each way in which a file can be refused.
Disk ==
    [accounts |-> GoodYaml,
     companies |-> GoodYaml,
     ghost |-> [GoodYaml EXCEPT !.raw = "absent"],
     garbled |-> [GoodYaml EXCEPT !.raw = "garbled"],
     shapeless |-> [GoodYaml EXCEPT !.schemaOk = FALSE],
     badjoin |-> [GoodYaml EXCEPT !.joinsFrom = {"id", "owner_id"}],
     nosource |-> [GoodYaml EXCEPT !.metrics = {[type |-> "atomic", source |-> <<>>]}],
     badmetric |-> [GoodYaml EXCEPT !.metrics =
                      {[type |-> "atomic",
                        source |-> <<[measure |-> "revenue",
                                      anchor_date |-> "created_at",
                                      filterFields |-> {}]>>]}],
     badanchor |-> [GoodYaml EXCEPT !.metrics =
                      {[type |-> "atomic",
                        source |-> <<[measure |-> "count",
                                      anchor_date |-> "closed_at",
                                      filterFields |-> {}]>>]}]]

\* The names asked for.
LoadNames == DOMAIN Disk

\* validateJoins: TRUE when it throws (a join whose local column is no
\* dimension).
validateJoins(file) == \E from \in file.joinsFrom : from \notin file.dims

\* One atomic metric refused by validateMetricSources.
MetricRefused(file, met) ==
    IF met.source = <<>> THEN TRUE
    ELSE \/ met.source[1].measure \notin file.measures
         \/ met.source[1].anchor_date \notin file.timeDims
         \/ "" \in met.source[1].filterFields

\* validateMetricSources: TRUE when it throws.
validateMetricSources(file) ==
    \E met \in file.metrics : met.type = "atomic" /\ MetricRefused(file, met)

\* What loadEntityYaml throws for a name once the read has settled, in the
\* order of its checks; "none" when the file passes all of them.
LoadError(n) ==
    IF Disk[n].raw = "absent" THEN "missing"
    ELSE IF Disk[n].raw = "garbled" THEN "parse"
    ELSE IF ~Disk[n].schemaOk THEN "schema"
    ELSE IF validateJoins(Disk[n]) THEN "join"
    ELSE IF validateMetricSources(Disk[n]) THEN "metric"
    ELSE "none"

\* entity: <<the identity of the object returned>>; error: what was thrown.
IdleLoad == [pc |-> "idle", name |-> "", entity |-> <<>>, error |-> "none"]

EntityIdle ==
    /\ entityCache = [n \in LoadNames |-> <<>>]
    /\ loads = [l \in LoadIds |-> IdleLoad]
    /\ objects = 0

\* The name is in the cache: the cached object is returned.
LoadFromCache(l) ==
    /\ loads[l].pc = "idle"
    /\ \E n \in LoadNames :
         /\ entityCache[n] # <<>>
         /\ loads' = [loads EXCEPT ![l] =
               [IdleLoad EXCEPT !.pc = "returned", !.name = n,
                                !.entity = entityCache[n]]]
    /\ UNCHANGED <<entityCache, objects, notEntityVars>>

\* The name is not in the cache: the call awaits fs.readFile.
LoadReadsFile(l) ==
    /\ loads[l].pc = "idle"
    /\ \E n \in LoadNames :
         /\ entityCache[n] = <<>>
         /\ loads' = [loads EXCEPT ![l] = [@ EXCEPT !.pc = "reading", !.name = n]]
    /\ UNCHANGED <<entityCache, objects, notEntityVars>>

\* A load that stores the entity before it validates it.
LoadThrowsAfterCaching(l) ==
    /\ loads[l].pc = "reading" /\ LoadError(loads[l].name) # "none"
    /\ objects' = objects + 1
    /\ entityCache' = [entityCache EXCEPT ![loads[l].name] = <<objects + 1>>]
    /\ loads' = [loads EXCEPT ![l] =
          [@ EXCEPT !.pc = "threw", !.error = LoadError(loads[l].name)]]
    /\ UNCHANGED notEntityVars

\* readFile rejects, or the text is refused by the parser, the schema,
\* validateJoins or validateMetricSources: the error is thrown.
LoadThrows(l) ==
    /\ loads[l].pc = "reading" /\ LoadError(loads[l].name) # "none"
    /\ loads' = [loads EXCEPT ![l] =
          [@ EXCEPT !.pc = "threw", !.error = LoadError(loads[l].name)]]
    /\ UNCHANGED <<entityCache, objects, notEntityVars>>

\* readFile resolves: the text is parsed and validated, a new entity object is
\* built, stored under the name, and returned.
LoadBuildsEntity(l) ==
    /\ loads[l].pc = "reading" /\ LoadError(loads[l].name) = "none"
    /\ objects' = objects + 1
    /\ entityCache' = [entityCache EXCEPT ![loads[l].name] = <<objects + 1>>]
    /\ loads' = [loads EXCEPT ![l] =
          [@ EXCEPT !.pc = "returned", !.entity = <<objects + 1>>]]
    /\ UNCHANGED notEntityVars

EntityNext ==
    \E l \in LoadIds :
        \/ LoadFromCache(l)
        \/ LoadReadsFile(l)
        \/ LoadThrows(l)
        \/ LoadBuildsEntity(l)

-----------------------------------------------------------------------------
(* expandSqlExpression (sql/macros.ts).  An expression is a sequence of     *)
(* tokens: a macro  {CUBE}.f ,  {f}  or  {e.f} , or a piece of plain text;  *)
(* the plain text  e.f  is the token [k |-> "text", e, f].  Each call of    *)
(* the function is a frame; the frames are the call stack of the engine.    *)
(* The machine follows the calls and the error thrown; it does not keep     *)
(* the expanded text.                                                       *)

\* The call-stack depth at which the engine throws its RangeError.
MaxDepth == 6

CubeTok(f) == [k |-> "cube", e |-> "", f |-> f]
SameTok(f) == [k |-> "same", e |-> "", f |-> f]
OtherTok(e, f) == [k |-> "other", e |-> e, f |-> f]
TextTok(e, f) == [k |-> "text", e |-> e, f |-> f]

\* The registry: per loaded entity, the sql of each dimension or time
\* dimension, and the reverse alias index.
MacroRegistry ==
    [accounts |->
        [fields |-> [id |-> <<CubeTok("id")>>,
                     label |-> <<TextTok("", "UPPER"), SameTok("id")>>,
                     selfref |-> <<SameTok("selfref"), TextTok("", "+1")>>,
                     ping |-> <<TextTok("", "f"), OtherTok("companies", "pong")>>,
                     named |-> <<TextTok("accounts", "named")>>],
         reverse |-> [acct_id |-> "id"]],
     companies |->
        [fields |-> [id |-> <<CubeTok("id")>>,
                     pong |-> <<OtherTok("accounts", "ping")>>,
                     owner |-> <<TextTok("", "g"), CubeTok("id"),
                                 OtherTok("accounts", "label")>>],
         reverse |-> [x \in {} |-> ""]],
     events |->
        [fields |-> [id |-> <<CubeTok("id")>>,
                     at |-> <<TextTok("", "day"), CubeTok("id")>>],
         reverse |-> [x \in {} |-> ""]]]

\* aliasByEntity, from computeJoinPath: events is loaded but not joined.
MacroAliases == [accounts |-> "t0", companies |-> "t1"]

\* resolveCanonicalField: <<the sql of the field>>, or <<>> for null.
resolveCanonicalField(ent, nameOrAlias) ==
    IF nameOrAlias \in DOMAIN MacroRegistry[ent].fields
    THEN <<MacroRegistry[ent].fields[nameOrAlias]>>
    ELSE IF nameOrAlias \in DOMAIN MacroRegistry[ent].reverse
    THEN <<MacroRegistry[ent].fields[MacroRegistry[ent].reverse[nameOrAlias]]>>
    ELSE <<>>

\* CUBE_RE matches the whole of a field's sql.
CUBE_RE(sql) == Len(sql) = 1 /\ sql[1].k = "cube"

\* The entry `${ent.name}.${field}` pushed on `stack`, as an expression.
StackName(ent, field) == <<TextTok(ent, field)>>

\* The order in which the macros of an expression are replaced:
\* {CUBE}.f first, then {e.f}, then {f}.
RECURSIVE IndexesOf(_, _, _)
IndexesOf(expr, kind, i) ==
    IF i > Len(expr) THEN <<>>
    ELSE IF expr[i].k = kind THEN <<i>> \o IndexesOf(expr, kind, i + 1)
    ELSE IndexesOf(expr, kind, i + 1)

VisitOrder(expr) ==
    IndexesOf(expr, "cube", 1) \o IndexesOf(expr, "other", 1)
        \o IndexesOf(expr, "same", 1)

\* A call of expandSqlExpression(expr, ctx, stack) that has not yet run.
NewFrame(expr, entity, stack) ==
    [expr |-> expr, entity |-> entity, stack |-> stack, entered |-> FALSE,
     todo |-> <<>>]

\* The entity a macro refers to, in the context of currentEntity.
TargetEntity(tok, currentEntity) == IF tok.k = "other" THEN tok.e ELSE currentEntity

\* What replacing one macro does: an error thrown, a qualified column
\* returned at once ("column"), or a recursive call ("recurse").
\* `exact` tells that the macro is the whole expression.
MacroStep(tok, currentEntity, exact) ==
    LET ent == TargetEntity(tok, currentEntity)
    IN  IF ent \notin DOMAIN MacroRegistry THEN "unknown entity"
        ELSE IF resolveCanonicalField(ent, tok.f) = <<>>
             THEN IF tok.k = "same" /\ tok.f = "CUBE" /\ ~exact
                  THEN IF ent \in DOMAIN MacroAliases THEN "column"
                       ELSE "missing alias"
                  ELSE "field not found"
        ELSE IF tok.k = "other" /\ ent \notin DOMAIN MacroAliases THEN "missing alias"
        ELSE IF CUBE_RE(resolveCanonicalField(ent, tok.f)[1])
             THEN IF ent \in DOMAIN MacroAliases THEN "column" ELSE "missing alias"
        ELSE "recurse"

\* The expressions handed to expandSqlExpression, and their entity.
MacroFieldNames == {"id", "label", "selfref", "ping", "pong", "named", "owner",
                    "at", "acct_id", "CUBE", "nope"}
MacroEntityNames == {"accounts", "companies", "events", "ghost"}
MacroExprs ==
    {<<SameTok(f)>> : f \in MacroFieldNames}
        \cup {<<CubeTok(f)>> : f \in MacroFieldNames}
        \cup {<<OtherTok(e, f)>> : e \in MacroEntityNames, f \in MacroFieldNames}
        \cup {<<TextTok("", "g"), SameTok(f)>> : f \in MacroFieldNames}
        \cup {<<TextTok("accounts", "named")>>}

MacroIdle == frames = <<>> /\ macroOut = "idle"

\* expandSqlExpression(expr, ctx) is called with the default stack.
ExpandCall ==
    /\ macroOut = "idle"
    /\ \E expr \in MacroExprs, entity \in MacroEntityNames :
          frames' = <<NewFrame(expr, entity, <<>>)>>
    /\ macroOut' = "running"
    /\ UNCHANGED notMacroVars

\* The engine has no room for one more frame: RangeError.
CallStackOverflow ==
    /\ macroOut = "running" /\ frames # <<>>
    /\ ~frames[Len(frames)].entered
    /\ Len(frames) > MaxDepth
    /\ macroOut' = "RangeError" /\ frames' = <<>>
    /\ UNCHANGED notMacroVars

\* The call starts: stack.includes(expr) throws the cycle error.
EnterCall ==
    /\ macroOut = "running" /\ frames # <<>>
    /\ ~frames[Len(frames)].entered
    /\ Len(frames) <= MaxDepth
    /\ IF frames[Len(frames)].expr \in Range(frames[Len(frames)].stack)
       THEN macroOut' = "cyclic" /\ frames' = <<>>
       ELSE /\ frames' = [frames EXCEPT ![Len(frames)] =
                  [@ EXCEPT !.entered = TRUE,
                             !.todo = VisitOrder(frames[Len(frames)].expr)]]
            /\ UNCHANGED macroOut
    /\ UNCHANGED notMacroVars

\* The next macro of the running call is replaced.
ReplaceMacro ==
    /\ macroOut = "running" /\ frames # <<>>
    /\ frames[Len(frames)].entered /\ frames[Len(frames)].todo # <<>>
    /\ \E top \in {frames[Len(frames)]} :
       \E tok \in {top.expr[Head(top.todo)]} :
       \E step \in {MacroStep(tok, top.entity, Len(top.expr) = 1)} :
       \E rest \in {[frames EXCEPT ![Len(frames)] = [@ EXCEPT !.todo = Tail(@)]]} :
          IF step = "column" THEN frames' = rest /\ UNCHANGED macroOut
          ELSE IF step = "recurse"
          THEN /\ frames' = Append(rest,
                    NewFrame(resolveCanonicalField(TargetEntity(tok, top.entity), tok.f)[1],
                             TargetEntity(tok, top.entity),
                             Append(top.stack,
                                    StackName(TargetEntity(tok, top.entity), tok.f))))
               /\ UNCHANGED macroOut
          ELSE macroOut' = step /\ frames' = <<>>
    /\ UNCHANGED notMacroVars

\* The running call has replaced all its macros and returns.
ReturnCall ==
    /\ macroOut = "running" /\ frames # <<>>
    /\ frames[Len(frames)].entered /\ frames[Len(frames)].todo = <<>>
    /\ frames' = SubSeq(frames, 1, Len(frames) - 1)
    /\ macroOut' = IF Len(frames) = 1 THEN "returned" ELSE "running"
    /\ UNCHANGED notMacroVars

\* The caller goes on to its next expression.
ExpandAgain ==
    /\ macroOut \notin {"idle", "running"}
    /\ macroOut' = "idle" /\ frames' = <<>>
    /\ UNCHANGED notMacroVars

MacroNext ==
    \/ ExpandCall
    \/ CallStackOverflow
    \/ EnterCall
    \/ ReplaceMacro
    \/ ReturnCall
    \/ ExpandAgain

-----------------------------------------------------------------------------
(* computeJoinPath (the join-path module printed after sql/render.ts).  A    *)
(* registry is a sequence of entities in Map order, each with the targets    *)
(* of its joins in file order; an edge is the pair <<a, b>>.                 *)

\* The longest list of required entities handed to computeJoinPath.
MaxRequired == 2

JoinNames == {"accounts", "companies", "events", "users", "ghost"}

\* The joins an entity file may declare, by owner, in file order.
CandidateJoins ==
    <<<<"accounts", "companies">>, <<"accounts", "events">>,
      <<"events", "users">>, <<"companies", "ghost">>, <<"users", "ghost">>,
      <<"companies", "events">>>>

\* The loaded entities, in Map insertion order ("ghost" is never loaded).
LoadedOrder == <<"accounts", "companies", "events", "users">>

\* The registry whose entities declare the joins picked by `chosen`.
RECURSIVE JoinsOf(_, _, _)
JoinsOf(name, chosen, i) ==
    IF i > Len(CandidateJoins) THEN <<>>
    ELSE (IF i \in chosen /\ CandidateJoins[i][1] = name
          THEN <<CandidateJoins[i][2]>> ELSE <<>>) \o JoinsOf(name, chosen, i + 1)

RegistryOf(chosen) ==
    [i \in 1..Len(LoadedOrder) |->
        [name |-> LoadedOrder[i], joins |-> JoinsOf(LoadedOrder[i], chosen, 1)]]

\* buildGraph: per node the edges leaving it, in insertion order; each join
\* adds an edge at its owner and the reverse edge at its target.
RECURSIVE AddJoins(_, _, _)
AddJoins(g, name, joins) ==
    IF joins = <<>> THEN g
    ELSE AddJoins([g EXCEPT ![name] = Append(@, <<name, Head(joins)>>),
                            ![Head(joins)] = Append(@, <<Head(joins), name>>)],
                  name, Tail(joins))

RECURSIVE AddEntities(_, _, _)
AddEntities(g, registry, i) ==
    IF i > Len(registry) THEN g
    ELSE AddEntities(AddJoins(g, registry[i].name, registry[i].joins),
                     registry, i + 1)

buildGraph(registry) == AddEntities([n \in JoinNames |-> <<>>], registry, 1)

\* The path from start to cur read back from `prev` (prev[n] = <<edge>>).
RECURSIVE Reconstruct(_, _, _)
Reconstruct(prev, cur, start) ==
    IF cur = start THEN <<>>
    ELSE Append(Reconstruct(prev, prev[cur][1][1], start), prev[cur][1])

\* A stack instead of the queue.
PushFront(q, v) == <<v>> \o q

\* q.push(v)
Enqueue(q, v) == Append(q, v)

\* shortestPath: the while loop over the queue and the for loop over the
\* edges of the node taken from it.  <<path>> when the goal is met, <<>> for
\* null.  seen is the key set of `prev`.
RECURSIVE SearchQueue(_, _, _, _, _, _)
RECURSIVE ScanEdges(_, _, _, _, _, _, _)
ScanEdges(g, es, q, prev, seen, start, goal) ==
    IF es = <<>> THEN SearchQueue(g, q, prev, seen, start, goal)
    ELSE IF Head(es)[2] \in seen
         THEN ScanEdges(g, Tail(es), q, prev, seen, start, goal)
    ELSE IF Head(es)[2] = goal
         THEN <<Reconstruct([prev EXCEPT ![goal] = <<Head(es)>>], goal, start)>>
    ELSE ScanEdges(g, Tail(es), Enqueue(q, Head(es)[2]),
                   [prev EXCEPT ![Head(es)[2]] = <<Head(es)>>],
                   seen \cup {Head(es)[2]}, start, goal)

SearchQueue(g, q, prev, seen, start, goal) ==
    IF q = <<>> THEN <<>>
    ELSE ScanEdges(g, g[Head(q)], Tail(q), prev, seen, start, goal)

shortestPath(g, start, goal) ==
    IF start = goal THEN <<<<>>>>
    ELSE SearchQueue(g, <<start>>, [n \in JoinNames |-> <<>>], {start}, start, goal)

\* The edges of path p not yet among `edges`, appended in order.
RECURSIVE PushNew(_, _)
PushNew(edges, p) ==
    IF p = <<>> THEN edges
    ELSE PushNew(IF \E i \in 1..Len(edges) : edges[i] = Head(p)
                 THEN edges ELSE Append(edges, Head(p)), Tail(p))

\* computeJoinPath: the loop over the required entities; it stops at the
\* first one without a path.
RECURSIVE CollectPaths(_, _, _, _)
CollectPaths(g, base, required, edges) ==
    IF required = <<>> THEN [ok |-> TRUE, edges |-> edges, from |-> "", to |-> ""]
    ELSE IF Head(required) = base THEN CollectPaths(g, base, Tail(required), edges)
    ELSE IF shortestPath(g, base, Head(required)) = <<>>
         THEN [ok |-> FALSE, edges |-> <<>>, from |-> base, to |-> Head(required)]
    ELSE CollectPaths(g, base, Tail(required),
                      PushNew(edges, shortestPath(g, base, Head(required))[1]))

computeJoinPath(baseEntity, requiredEntities, registry) ==
    CollectPaths(buildGraph(registry), baseEntity, requiredEntities, <<>>)

\* entitySet: the base and both ends of every edge; orderedEntities lists
\* these names and aliasByEntity has exactly these keys.
EntitySet(baseEntity, edges) ==
    {baseEntity} \cup {edges[i][1] : i \in 1..Len(edges)}
                 \cup {edges[i][2] : i \in 1..Len(edges)}

\* The keys of a registry.
RegistryKeys(registry) == {registry[i].name : i \in 1..Len(registry)}

\* The lists of required entities.
RequiredLists ==
    {q \in UNION {[1..n -> JoinNames] : n \in 0..MaxRequired} :
        \A i, j \in 1..Len(q) : i # j => q[i] # q[j]}

JoinIdle == joinIn = <<>> /\ joinOut = <<>>

\* computeJoinPath is called on some registry, base and required entities.
ComputeJoinPath ==
    /\ joinIn = <<>>
    /\ \E chosen \in SUBSET (1..Len(CandidateJoins)), base \in JoinNames,
          required \in RequiredLists :
          /\ joinIn' = <<[chosen |-> chosen, base |-> base, required |-> required]>>
          /\ joinOut' = <<computeJoinPath(base, required, RegistryOf(chosen))>>
    /\ UNCHANGED notJoinVars

\* The caller goes on to its next plan.
JoinAgain ==
    /\ joinIn # <<>>
    /\ joinIn' = <<>> /\ joinOut' = <<>>
    /\ UNCHANGED notJoinVars

JoinNext == ComputeJoinPath \/ JoinAgain

-----------------------------------------------------------------------------
(* renderSQLFromPlan (sql/render.ts) and semanticCheck (sql/validate.ts).    *)
(* The entities of the registry are those of the join-path model; each has   *)
(* a table, dimensions and time dimensions whose sql is the plain column     *)
(* {CUBE}.<name>, and measures of type count; no entity has metrics or       *)
(* aliases.  A field name is [e, f]: e.f, or f alone when e is "".  A value  *)
(* is a string (its text as tokens) or a number.                             *)

\* The parts of each entity's `table`: <<schema, table>>.
RenderTables == [accounts |-> <<"main", "accounts">>,
                 companies |-> <<"crm", "companies">>,
                 events |-> <<"analytics", "events">>,
                 users |-> <<"staging", "users">>]
RenderDims == [accounts |-> {"id", "name"}, companies |-> {"id", "tier"},
               events |-> {"id"}, users |-> {"id"}]
RenderTimeDims == [accounts |-> <<"created_at">>, companies |-> <<>>,
                   events |-> <<"at">>, users |-> <<>>]
RenderMeasures == [accounts |-> {"signups"}, companies |-> {}, events |-> {},
                   users |-> {}]

\* ALLOWED_SCHEMAS, by default.
allowedSchemas == {"analytics", "crm", "main"}

\* The registries: the first `n` loaded entities, with the joins `chosen`.
RenderRegistry(n, chosen) == SubSeq(RegistryOf(chosen), 1, n)

RegNames(registry) == {registry[i].name : i \in 1..Len(registry)}

\* The entity's dimension or time dimension of that name exists.
HasField(ent, f) == f \in RenderDims[ent] \/ f \in Range(RenderTimeDims[ent])

\* jp.orderedEntities without the base: the endpoints of the edges.
PathEntities(jp, base) ==
    ({jp.edges[i][1] : i \in 1..Len(jp.edges)}
        \cup {jp.edges[i][2] : i \in 1..Len(jp.edges)}) \ {base}

\* jp.aliasByEntity.get(e)
RenderAlias(jp, base, e) ==
    IF e = base THEN AliasNames[1] ELSE AliasAmong(PathEntities(jp, base), e)

\* The entity a field name is looked up in.
FieldEntity(name, currentEntity) == IF name.e = "" THEN currentEntity ELSE name.e

\* expandSqlExpression of the token {f} or {e.f} throws.
ExpandThrows(name, currentEntity, jp, base, names) ==
    \/ FieldEntity(name, currentEntity) \notin names
    \/ ~HasField(FieldEntity(name, currentEntity), name.f)
    \/ RenderAlias(jp, base, FieldEntity(name, currentEntity)) = "undefined"

\* expandSqlExpression of the token {f} or {e.f}: alias.column
ExpandText(name, currentEntity, jp, base) ==
    <<RenderAlias(jp, base, FieldEntity(name, currentEntity)), ".", name.f>>

\* String(v).replace(/'/g, "''")
RECURSIVE EscapeQuotes(_)
EscapeQuotes(text) ==
    IF text = <<>> THEN <<>>
    ELSE (IF Head(text) = "'" THEN <<"'", "'">> ELSE <<Head(text)>>)
            \o EscapeQuotes(Tail(text))

asSqlLiteral(v) ==
    IF v.type = "number" THEN v.text
    ELSE <<"'">> \o EscapeQuotes(v.text) \o <<"'">>

\* The parts of a list joined by a separator.
RECURSIVE JoinWith(_, _)
JoinWith(parts, sep) ==
    IF parts = <<>> THEN <<>>
    ELSE IF Len(parts) = 1 THEN parts[1]
    ELSE parts[1] \o sep \o JoinWith(Tail(parts), sep)

SupportedOperators == {"=", "!=", ">", ">=", "<", "<="}

\* buildPredicate throws: the field, the number of values, the operator.
PredicateThrows(filter, jp, base, names) ==
    \/ ExpandThrows(filter.field, base, jp, base, names)
    \/ /\ filter.operator \notin {"in", "not_in"}
       /\ Len(filter.values) # 1 \/ filter.operator \notin SupportedOperators

buildPredicate(filter, jp, base) ==
    IF filter.operator \in {"in", "not_in"}
    THEN ExpandText(filter.field, base, jp, base)
            \o (IF filter.operator = "in" THEN <<"IN">> ELSE <<"NOT", "IN">>)
            \o <<"(">>
            \o JoinWith([i \in 1..Len(filter.values) |-> asSqlLiteral(filter.values[i])],
                        <<",">>)
            \o <<")">>
    ELSE ExpandText(filter.field, base, jp, base)
            \o <<filter.operator>> \o asSqlLiteral(filter.values[1])

\* ff.replace(/\*\//g, '* /') inside the comment of a free-form filter.
RECURSIVE SplitClosers(_)
SplitClosers(ff) ==
    IF ff = <<>> THEN <<>>
    ELSE (IF Head(ff) = "*/" THEN <<"*", "/">> ELSE <<Head(ff)>>)
            \o SplitClosers(Tail(ff))

UserFilter(ff) == <<"/*", "user_filter:">> \o SplitClosers(ff) \o <<"*/">>

\* The metric name is a measure of some entity on the join path.
MeasureFound(mname, jp, base) ==
    \E e \in PathEntities(jp, base) \cup {base} : mname \in RenderMeasures[e]

\* renderSQLFromPlan throws, given the join path of the plan.
RenderThrowsOn(plan, jp, base, names) ==
    \/ ~jp.ok
    \/ base \notin names
    \/ ~(PathEntities(jp, base) \subseteq names)
    \/ \E i \in 1..Len(plan.dimensions) :
          ExpandThrows(plan.dimensions[i], base, jp, base, names)
    \/ \E i \in 1..Len(plan.metrics) : ~MeasureFound(plan.metrics[i], jp, base)
    \/ plan.timeRange # <<>> /\ RenderTimeDims[base] = <<>>
    \/ \E i \in 1..Len(plan.structuredFilters) :
          PredicateThrows(plan.structuredFilters[i], jp, base, names)

\* The SELECT list.
SelectCols(plan, jp, base) ==
    [i \in 1..Len(plan.dimensions) |->
        ExpandText(plan.dimensions[i], base, jp, base)
            \o <<"AS", "\"", plan.dimensions[i].f, "\"">>]
    \o [i \in 1..Len(plan.metrics) |->
        <<"COUNT", "(", "*", ")", "AS", "\"", plan.metrics[i], "\"">>]

\* The JOIN lines, one per edge (joins are on "id", many_to_one).
JoinLines(jp, base) ==
    [i \in 1..Len(jp.edges) |->
        <<"LEFT JOIN">> \o JoinWith([k \in 1..2 |-> <<RenderTables[jp.edges[i][2]][k]>>], <<".">>)
            \o <<RenderAlias(jp, base, jp.edges[i][2]), "ON">>
            \o Qualified(RenderAlias(jp, base, jp.edges[i][1]), "id")
            \o <<"=">>
            \o Qualified(RenderAlias(jp, base, jp.edges[i][2]), "id")]

\* The conditions of the WHERE clause.
WhereParts(plan, jp, base) ==
    (IF plan.timeRange = <<>> THEN <<>>
     ELSE <<<<AliasNames[1], ".", RenderTimeDims[base][1], ">=", "'">>
              \o plan.timeRange[1].start
              \o <<"'", "AND", AliasNames[1], ".", RenderTimeDims[base][1], "<", "'">>
              \o plan.timeRange[1].end \o <<"'">>>>)
    \o [i \in 1..Len(plan.structuredFilters) |->
            buildPredicate(plan.structuredFilters[i], jp, base)]
    \o [i \in 1..Len(plan.filters) |-> UserFilter(plan.filters[i])]

\* The ordinals 1..n of GROUP BY.
Ordinals == <<"1", "2", "3">>

\* The text renderSQLFromPlan returns: the parts joined by line ends.
RenderText(plan, jp, base) ==
    JoinWith(
        <<<<"SELECT">>,
          IF Len(SelectCols(plan, jp, base)) > 0
          THEN JoinWith(SelectCols(plan, jp, base), <<",", "\n">>)
          ELSE <<"1", "AS", "dummy">>,
          <<"FROM">> \o JoinWith([k \in 1..2 |-> <<RenderTables[base][k]>>], <<".">>)
              \o <<AliasNames[1]>>>>
        \o (IF Len(jp.edges) > 0 THEN <<JoinWith(JoinLines(jp, base), <<"\n">>)>>
            ELSE <<>>)
        \o (IF Len(WhereParts(plan, jp, base)) > 0
            THEN <<<<"WHERE">> \o JoinWith(WhereParts(plan, jp, base), <<"\n", "AND">>)>>
            ELSE <<>>)
        \o (IF Len(plan.dimensions) > 0
            THEN <<<<"GROUP BY">>
                     \o JoinWith([i \in 1..Len(plan.dimensions) |-> <<Ordinals[i]>>],
                                 <<",">>)>>
            ELSE <<>>)
        \o <<<<"LIMIT", "1001">>>>,
        <<"\n">>)

\* renderSQLFromPlan: <<the SQL>>, or <<>> when it throws.
renderSQLFromPlan(plan, registry) ==
    IF Len(plan.selectedEntities) = 0 THEN <<>>
    ELSE IF RenderThrowsOn(plan,
                computeJoinPath(plan.selectedEntities[1],
                                Dedup(plan.selectedEntities), registry),
                plan.selectedEntities[1], RegNames(registry))
    THEN <<>>
    ELSE <<RenderText(plan,
                computeJoinPath(plan.selectedEntities[1],
                                Dedup(plan.selectedEntities), registry),
                plan.selectedEntities[1])>>

\* verifyAllowedTables throws: a table without schema, or a schema that is
\* not allowed.
verifyAllowedTables(names) ==
    \E e \in names :
        Len(RenderTables[e]) < 2 \/ RenderTables[e][1] \notin allowedSchemas

\* existsInAnyEntity(name)
existsInAnyEntity(name, names) ==
    IF name.e # "" THEN name.e \in names /\ HasField(name.e, name.f)
    ELSE \E e \in names : HasField(e, name.f)

\* semanticCheck(plan, sql, registry).ok
semanticCheck(plan, sql, registry) ==
    /\ ~verifyAllowedTables(RegNames(registry))
    /\ \A e \in Range(plan.selectedEntities) : e \in RegNames(registry)
    /\ \A e \in Range(Endpoints(plan.joinGraph)) : e \in RegNames(registry)
    /\ \A i \in 1..Len(plan.dimensions) :
          existsInAnyEntity(plan.dimensions[i], RegNames(registry))
    /\ \A i \in 1..Len(plan.metrics) :
          \E e \in RegNames(registry) : plan.metrics[i] \in RenderMeasures[e]
    /\ plan.timeRange # <<>> =>
          \E e \in RegNames(registry) : RenderTimeDims[e] # <<>>

\* The plans handed to the renderer.
StringValue(text) == [type |-> "string", text |-> text]
RenderValues == {StringValue(<<"acme">>), StringValue(<<"O", "'", "Neil">>),
                 StringValue(<<"a", ";", "b">>), StringValue(<<"DELETE">>),
                 [type |-> "number", text |-> <<"7">>]}
FieldName(e, f) == [e |-> e, f |-> f]
RenderFilters ==
    {<<>>}
      \cup {<<[field |-> FieldName("", "name"), operator |-> op, values |-> <<v>>]>> :
                op \in {"=", "in", "like"}, v \in RenderValues}
      \cup {<<[field |-> FieldName("", "name"), operator |-> "=", values |-> <<>>]>>}
RenderPlans ==
    [selectedEntities : {<<>>, <<"accounts">>, <<"accounts", "companies">>,
                         <<"companies", "users">>, <<"ghost">>},
     joinGraph : {<<>>, <<<<"accounts", "companies">>>>, <<<<"accounts", "ghost">>>>},
     dimensions : {<<>>, <<FieldName("", "name")>>,
                   <<FieldName("", "id"), FieldName("companies", "tier")>>,
                   <<FieldName("", "nope")>>},
     metrics : {<<>>, <<"signups">>, <<"revenue">>},
     timeRange : {<<>>, <<[start |-> <<"2024-01-01">>, end |-> <<"2025-01-01">>]>>},
     structuredFilters : RenderFilters,
     filters : {<<>>, <<<<"recent", "only">>>>, <<<<"a", "*/", "b">>>>,
                <<<<"see", "/*", "note">>>>}]

RenderIdle == renderIn = <<>> /\ rendered = <<>> /\ verdict = <<>>

\* renderSQLFromPlan is called on a plan and a registry.
RenderCall ==
    /\ renderIn = <<>>
    /\ \E plan \in RenderPlans, n \in {2, 4}, chosen \in {{1}, {1, 2, 3}} :
          /\ renderIn' = <<[plan |-> plan, registry |-> RenderRegistry(n, chosen)]>>
          /\ rendered' = <<renderSQLFromPlan(plan, RenderRegistry(n, chosen))>>
    /\ UNCHANGED <<verdict, notRenderVars>>

\* The SQL returned is validated: syntaxScan, then semanticCheck.
ValidateRendered ==
    /\ renderIn # <<>> /\ verdict = <<>>
    /\ rendered[1] # <<>>
    /\ verdict' = <<ValidationOf(syntaxScan(rendered[1][1]),
                                 semanticCheck(renderIn[1].plan, rendered[1][1],
                                               renderIn[1].registry))>>
    /\ UNCHANGED <<renderIn, rendered, notRenderVars>>

\* The caller goes on to its next plan.
RenderAgain ==
    /\ renderIn # <<>>
    /\ rendered[1] = <<>> \/ verdict # <<>>
    /\ renderIn' = <<>> /\ rendered' = <<>> /\ verdict' = <<>>
    /\ UNCHANGED notRenderVars

RenderNext == RenderCall \/ ValidateRendered \/ RenderAgain

-----------------------------------------------------------------------------
(* The two guards on a SQL text: preflightGuard (snowflake.ts) and           *)
(* syntaxScan (sql/validate.ts).                                             *)

\* The longest text handed to the guards, in tokens.
MaxGuardLen == 3

GuardTokens == {"SELECT", "x", ";", "DELETE", "\n"}
GuardTexts == UNION {[1..n -> GuardTokens] : n \in 1..MaxGuardLen}

GuardIdle == guardIn = <<>> /\ guardOut = <<>>

\* A text goes through both guards.
GuardText ==
    /\ guardIn = <<>>
    /\ \E text \in GuardTexts :
          /\ guardIn' = <<text>>
          /\ guardOut' = <<[preflightRejects |-> preflightGuard(text),
                            multipleStatements |-> MultipleStatements(text),
                            disallowedToken |-> HasDisallowedVerb(text),
                            scanOk |-> syntaxScan(text)]>>
    /\ UNCHANGED notGuardVars

\* The next text.
GuardAgain ==
    /\ guardIn # <<>>
    /\ guardIn' = <<>> /\ guardOut' = <<>>
    /\ UNCHANGED notGuardVars

GuardNext == GuardText \/ GuardAgain

-----------------------------------------------------------------------------
(* attemptRepair (lib/execute/repair.ts) on its own: one call on a text, a   *)
(* plan and a driver error; the state keeps what the call returned and what  *)
(* its strategies found on the way.                                          *)

RepairSqls == {<<"SELECT", "nme", "FROM", "t">>,
               <<"SELECT", "name", "WHERE", "x", "=", "'", "nme", "'">>,
               <<"SELECT", "tr", ",", "name">>,
               <<"SELECT", "x", "ORDER BY", "x">>,
               <<"SELECT", "x", "ORDER BY", "x", "LIMIT", "5">>,
               <<"SELECT", "x", "ORDER BY", "x", "\n", "LIMIT", "5">>,
               <<"SELECT", "x", "LIMIT", "5">>}
RepairPlans == ToolPlans \cup {PlanOf(<<"accounts", "companies">>)}
RepairErrors ==
    {ErrorOf(cnf, amb, to) :
        cnf \in {<<>>, <<"nme">>, <<"tr">>, <<"x">>, <<"tr", "x">>},
        amb \in {<<>>, <<"name">>, <<"tier">>, <<"name", "tier">>},
        to \in BOOLEAN}

RepairIdle == repairIn = <<>> /\ repairOut = <<>>

\* attemptRepair(sql, plan, entityLoader, err)
AttemptRepair ==
    /\ repairIn = <<>>
    /\ \E sql \in RepairSqls, plan \in RepairPlans, err \in RepairErrors :
          /\ repairIn' = <<[sql |-> sql, plan |-> plan, err |-> err]>>
          /\ repairOut' =
                <<IF attemptRepairThrows(plan)
                  THEN [threw |-> TRUE, candidate |-> <<>>, matches |-> <<>>,
                        attempted |-> FALSE]
                  ELSE [threw |-> FALSE,
                        candidate |-> attemptRepair(sql, plan, err),
                        matches |-> [i \in 1..Len(err.cnf) |->
                                        bestColumnMatch(err.cnf[i], plan)],
                        attempted |-> qualifyAmbiguous(sql, plan, err.amb).any]>>
    /\ UNCHANGED notRepairVars

\* The caller goes on to the next failure.
RepairAgain ==
    /\ repairIn # <<>>
    /\ repairIn' = <<>> /\ repairOut' = <<>>
    /\ UNCHANGED notRepairVars

RepairNext == AttemptRepair \/ RepairAgain

-----------------------------------------------------------------------------
Init ==
    /\ AgentInit /\ BreakerIdle /\ ExecIdle /\ StatementIdle
    /\ CacheSizeIdle /\ EntityIdle /\ MacroIdle /\ JoinIdle /\ RenderIdle
    /\ GuardIdle /\ RepairIdle

Next == AgentNext

Spec == Init /\ [][Next]_vars

SpecBreaker == Init /\ [][BreakerNext]_vars

SpecExec == Init /\ [][ExecNext]_vars

SpecStatement == Init /\ [][StatementNext]_vars

SpecCacheSize == Init /\ [][CacheSizeNext]_vars

SpecEntity == Init /\ [][EntityNext]_vars

SpecMacro == Init /\ [][MacroNext]_vars

SpecJoin == Init /\ [][JoinNext]_vars

SpecRender == Init /\ [][RenderNext]_vars

SpecGuard == Init /\ [][GuardNext]_vars

SpecRepair == Init /\ [][RepairNext]_vars

-----------------------------------------------------------------------------
(* Properties of the phase orchestrator (checked under Spec).                *)

C3_ExecutionOnlyValidatedSql ==
    phase \in {"execution", "reporting"} =>
        /\ finalBuild # <<>>
        /\ validated[finalBuild[1].sql] = <<ValidationOf(TRUE, TRUE)>>

\* C5: once ExecuteSQLWithRepair has a tool result, every step prepared
\* afterwards is in Reporting with exactly the Reporting tools active, and no
\* later step invokes the execution tool.
C5_ReportingAfterExecution ==
    /\ []("ExecuteSQLWithRepair" \in resultNames /\ pc = "generate" =>
            phase = "reporting" /\ activeTools = ReportingTools)
    /\ [][("ExecuteSQLWithRepair" \in resultNames /\ stepCount' = stepCount + 1) =>
            "ExecuteSQLWithRepair" \notin lastCalls']_vars

\* C5 witness: a Reporting step has run after the execution tool's result.
C5_Witness ==
    /\ "ExecuteSQLWithRepair" \in resultNames
    /\ "ExecuteSQLWithRepair" \notin lastCalls
    /\ phase = "reporting"
    /\ pc = "prepare"

\* C6: once a completed step holds a result of FinalizeReport, FinalizeNoData
\* or ClarifyIntent, the loop has stopped: no step is prepared or run.
C6_StopsOnTerminalTool ==
    ({"FinalizeReport", "FinalizeNoData", "ClarifyIntent"} \cap resultNames # {})
        => (pc = "stopped" /\ ~ENABLED PrepareStep /\ ~ENABLED RunStep)

\* C6 witness: the loop stopped on ClarifyIntent in Planning, below the ceiling.
C6_Witness ==
    /\ "ClarifyIntent" \in resultNames
    /\ pc = "stopped"
    /\ phase = "planning"
    /\ stepCount < 100

\* C7: a run never completes more than 100 steps, and at 100 steps it has
\* stopped whatever the tools returned.
C7_StepCeiling ==
    /\ stepCount <= 100
    /\ stepCount = 100 => (pc = "stopped" /\ ~ENABLED Next)

\* C7 witness: a run stopped by the ceiling alone, no terminal tool fired.
C7_Witness ==
    /\ stepCount = 100
    /\ pc = "stopped"
    /\ {"FinalizeReport", "FinalizeNoData", "ClarifyIntent"} \cap resultNames = {}
    /\ lastCalls # {}

\* C31 (as stated): in Building, after a ValidateSQL result that reports
\* issues, at most one further ValidateSQL pass takes place before the run
\* leaves Building.
C31_OneCorrectivePass ==
    furtherPasses # <<>> => furtherPasses[1] <= 1

\* C39: the phase never moves backwards in the order Planning, Building,
\* Execution, Reporting: the phase a prepareStep sets is never earlier than
\* the phase before it, and no other step changes the phase.
C39_PhaseNeverMovesBack ==
    [][PhaseRank(phase') >= PhaseRank(phase)]_vars

\* C39 witness: a run has moved through all four phases, with a step in
\* which a tool call ended without a result.
C39_Witness ==
    /\ phase = "reporting"
    /\ {"FinalizePlan", "FinalizeBuild", "ExecuteSQLWithRepair"} \subseteq resultNames
    /\ pc = "generate"

-----------------------------------------------------------------------------
(* Properties of the circuit breaker (checked under SpecBreaker).            *)

\* C8: consecutiveFailures is the number of failed attempts since the last
\* success; the breaker is never open below three of them; the failure that
\* brings the count to three (or keeps it there) sets trippedUntil 60 000 ms
\* ahead, and the third one opens a breaker that was closed.
C8_BreakerOpensAtThree ==
    /\ [](/\ breaker.consecutiveFailures = failsSinceSuccess
          /\ failsSinceSuccess < 3 =>
                (breaker.trippedUntil = 0 /\ ~(now < breaker.trippedUntil)))
    /\ [][failsSinceSuccess' = failsSinceSuccess + 1 =>
            IF failsSinceSuccess' >= 3
            THEN /\ breaker'.trippedUntil = now + 60000
                 /\ now' < breaker'.trippedUntil
                 /\ failsSinceSuccess' = 3 => ~(now < breaker.trippedUntil)
            ELSE breaker'.trippedUntil = 0]_vars

\* C8 witness: the third consecutive failure has just opened the breaker.
C8_Witness ==
    /\ failsSinceSuccess = 3
    /\ breaker.trippedUntil = now + 60000
    /\ now < breaker.trippedUntil

\* C9: a call that starts while the breaker is open ends at once with the
\* breaker-open error: it holds no connection, asked the pool for none and
\* submitted nothing.
C9_OpenBreakerRejectsCall ==
    /\ [](\A c \in CallIds : calls[c].lastErr = "breakerOpen" =>
            /\ calls[c].pc = "thrown"
            /\ calls[c].held = 0
            /\ calls[c].contacts = 0
            /\ calls[c].attempt = 0)
    /\ [][\A c \in CallIds :
            (calls[c].pc = "idle" /\ calls'[c].pc # "idle"
                /\ now < breaker.trippedUntil) =>
              /\ calls'[c].pc = "thrown"
              /\ calls'[c].lastErr = "breakerOpen"
              /\ InUse' = InUse]_vars

\* C9 witness: the breaker is open after three failed attempts of one call,
\* and another call that started meanwhile was rejected with the breaker-open
\* error while the pool was untouched.
C9_Witness ==
    \E c, d \in CallIds :
        /\ c # d
        /\ calls[c].lastErr = "breakerOpen" /\ calls[c].pc = "thrown"
        /\ calls[d].attempt = 3 /\ calls[d].lastErr = "statement"
        /\ now < breaker.trippedUntil

\* C10: every successful attempt resets consecutiveFailures to 0, and the
\* breaker is open only when at least three failures were recorded since the
\* last success.
C10_SuccessResetsCount ==
    /\ [](now < breaker.trippedUntil => failsSinceSuccess >= 3)
    /\ [][(\E c \in CallIds : calls[c].pc = "running" /\ calls'[c].pc = "release"
                                /\ calls'[c].lastErr = "none")
            => breaker'.consecutiveFailures = 0]_vars

\* C10 witness: a call has just succeeded on its third attempt (two failures,
\* then a success) and the count is back at 0.
C10_Witness ==
    /\ \E c \in CallIds : /\ calls[c].pc = "release" /\ calls[c].lastErr = "none"
                          /\ calls[c].attempt = 3
    /\ breaker.consecutiveFailures = 0
    /\ failsSinceSuccess = 0

\* The calls of execWithRetry that are under way.
ExecUnderWay ==
    {c \in CallIds : calls[c].kind = "exec"
                        /\ calls[c].pc \in {"acquire", "running", "release"}}

\* C11: one execWithRetry call submits its statement at most
\* min(max(attempts, 1), 5) times, 3 by default; after its first success it
\* returns without another submission; it throws the last error only when
\* every attempt has failed, and with attempts = 1 a failing statement is
\* thrown after exactly one submission.
C11_BoundedAttempts ==
    /\ [](\A c \in ExecUnderWay :
            /\ calls[c].attempts =
                 Min(Max(IF calls[c].requested = <<>> THEN 3
                         ELSE calls[c].requested[1], 1), 5)
            /\ calls[c].contacts <= calls[c].attempt
            /\ calls[c].attempt <= calls[c].attempts)
    /\ [][\A c \in CallIds :
            IF calls[c].pc \in {"returned", "thrown"}
            THEN calls'[c] = calls[c]
            ELSE (calls[c].kind = "exec" /\ calls[c].pc = "release"
                    /\ calls'[c] # calls[c]) =>
                   IF calls[c].lastErr = "none"
                   THEN calls'[c].pc = "returned"
                   ELSE (calls'[c].pc = "thrown"
                            /\ calls[c].lastErr = "statement") =>
                          /\ calls[c].attempt = calls[c].attempts
                          /\ calls[c].contacts = calls[c].attempts
                          /\ calls'[c].lastErr = "statement"
                          /\ calls[c].requested = <<1>> =>
                                calls[c].contacts = 1]_vars

\* C11 witness: a call asked for 7 attempts, and its fifth submission has
\* failed: the release that follows ends the call.
C11_Witness ==
    \E c \in ExecUnderWay :
        /\ calls[c].requested = <<7>>
        /\ calls[c].pc = "release" /\ calls[c].lastErr = "statement"
        /\ calls[c].contacts = 5 /\ calls[c].attempt = 5

\* C12: a rejection by the preflight guard is fatal: within one execWithRetry
\* call the release that follows the rejection ends the call with the policy
\* error, and no further attempt is made.
C12_PolicyErrorNotRetried ==
    [][\A c \in CallIds :
         (calls[c].kind = "exec" /\ calls[c].pc = "release"
             /\ calls[c].lastErr = "policy" /\ calls'[c] # calls[c]) =>
           /\ calls'[c].pc = "thrown"
           /\ calls'[c].lastErr = "policy"]_vars

\* C14: a call of execWithRetry or explainJSON holds a connection exactly
\* from the acquisition of an attempt to the release in its finally: never
\* more than one, none while it waits for the pool, and none once it has
\* returned or thrown; every attempt that acquired one (ended by a success, a
\* driver error or timeout, or a preflight rejection) gives it back once.
C14_ReleasedExactlyOnce ==
    /\ [](\A c \in CallIds :
            calls[c].held = IF calls[c].pc \in {"running", "release"} THEN 1 ELSE 0)
    /\ [][\A c \in CallIds :
            /\ calls'[c].held > calls[c].held =>
                  /\ calls[c].pc = "acquire"
                  /\ calls'[c].held = calls[c].held + 1
            /\ calls'[c].held < calls[c].held =>
                  /\ calls[c].pc = "release"
                  /\ calls'[c].held = calls[c].held - 1]_vars

\* C14 witness: an execWithRetry call has thrown after the preflight
\* rejection of its last attempt, an explainJSON call has returned, and the
\* pool has every connection back.
C14_Witness ==
    \E c, d \in CallIds :
        /\ calls[c].pc = "thrown" /\ calls[c].lastErr = "policy"
        /\ calls[d].pc = "returned" /\ calls[d].kind = "explain"
        /\ InUse = 0

\* C32 (as stated): within one execWithRetry call, once a failed attempt has
\* left the breaker open, no remaining attempt of that call acquires a
\* connection or submits the statement.
C32_NoAttemptWhileOpen ==
    [][\A c \in CallIds :
         (/\ calls[c].kind = "exec" /\ calls[c].pc = "acquire"
          /\ calls[c].attempt > 1 /\ calls[c].lastErr # "none"
          /\ breaker.consecutiveFailures >= FailureThreshold
          /\ isOpen(breaker, now)) =>
            /\ calls'[c].held = calls[c].held
            /\ calls'[c].contacts = calls[c].contacts]_vars

\* C33 (as stated): an open breaker stays open until its 60 s have elapsed:
\* no step in which no time passes closes it or brings its end forward.
C33_OpenUntilCoolDownElapsed ==
    [][(isOpen(breaker, now) /\ now' = now) =>
          /\ isOpen(breaker', now')
          /\ breaker'.trippedUntil >= breaker.trippedUntil]_vars

\* C34 (as stated): the attempt in which the preflight guard rejects the
\* text leaves consecutiveFailures and trippedUntil as they were.
C34_PolicyRejectionLeavesBreaker ==
    [][\A c \in CallIds :
         (/\ calls[c].pc = "acquire" /\ calls'[c].pc = "release"
          /\ calls'[c].lastErr = "policy") => breaker' = breaker]_vars

\* C40: trippedUntil is non-zero exactly when consecutiveFailures is at least
\* 3, whatever the order of the recorded successes and failures.
C40_TrippedIffThreeFailures ==
    (breaker.trippedUntil # 0) <=> (breaker.consecutiveFailures >= 3)

\* C40 witness: a success has been recorded after the breaker had been opened
\* by the third failure in a row, while the cool-down was still running: both
\* fields are back at zero and the failing call has gone on to a later attempt.
C40_Witness ==
    /\ breaker = [consecutiveFailures |-> 0, trippedUntil |-> 0]
    /\ now < CoolDownMs
    /\ \E c \in CallIds : calls[c].attempt > FailureThreshold
    /\ \E d \in CallIds : calls[d].pc = "release" /\ calls[d].lastErr = "none"

-----------------------------------------------------------------------------
(* Properties of ExecuteSQLWithRepair as wired into the agent (checked       *)
(* under SpecExec).                                                          *)

\* C2: the execution tool wired into the agent never hands the driver a text
\* that contains a disallowed verb or more than one statement: such a text
\* is rejected before any driver call.
C2_NoDisallowedSubmission ==
    \A t \in ToolIds : tcalls[t].pc = "await" =>
        /\ ~HasDisallowedVerb(tcalls[t].cand)
        /\ ~MultipleStatements(tcalls[t].cand)

\* C4: ExecuteSQLWithRepair never throws on a database failure: for every
\* driver failure and every plan, the invocation ends with a returned result.
C4_NeverThrows ==
    \A t \in ToolIds : tcalls[t].pc # "threw"

\* C15: one invocation of ExecuteSQLWithRepair calls attemptRepair at most
\* twice and hands at most three texts to the driver (the original and at
\* most two repaired ones), whatever the driver answers.
C15_AtMostTwoRepairs ==
    \A t \in ToolIds :
        /\ tcalls[t].repairs <= 2
        /\ tcalls[t].executed <= 3
        /\ tcalls[t].executed <= tcalls[t].repairs + 1

\* C15 witness: the original and two repaired texts were executed and the
\* third failed as well: the failure is returned after two repairs.
C15_Witness ==
    \E t \in ToolIds :
        /\ tcalls[t].pc = "done" /\ tcalls[t].result.kind = "failed"
        /\ tcalls[t].repairs = 2 /\ tcalls[t].executed = 3

\* The text an invocation was given, read off the step that starts it.
StartedWith(call) == IF call.pc = "await" THEN call.sql ELSE call.result.attemptedSql

\* C16: an invocation for a text whose entry is in the cache and less than
\* 5 minutes old returns the rows of the entry with fromCache = TRUE and hands
\* nothing to the driver; until then the entry stays where a success put it.
C16_FreshEntryServedFromCache ==
    /\ [][\A t \in ToolIds :
            (tcalls[t].pc = "idle" /\ tcalls'[t].pc # "idle") =>
              \A S \in {StartedWith(tcalls'[t])} :
                (queryCache[S] # <<>>
                    /\ clock - queryCache[S][1].cachedAt < 300000) =>
                  /\ tcalls'[t].pc = "done"
                  /\ tcalls'[t].result.kind = "rows"
                  /\ tcalls'[t].result.fromCache
                  /\ tcalls'[t].result.rows = queryCache[S][1].rows
                  /\ tcalls'[t].executed = 0
                  /\ queryCache'[S] = queryCache[S]]_vars
    /\ [][\A S \in ToolSqls :
            (queryCache[S] # <<>> /\ clock' = clock
                /\ clock - queryCache[S][1].cachedAt < 300000) =>
              queryCache'[S] # <<>>]_vars

\* C16 witness: 150 s after a success stored its rows, an invocation with the
\* same text has returned them from the cache.
C16_Witness ==
    \E t \in ToolIds :
        /\ tcalls[t].pc = "done" /\ tcalls[t].result.fromCache
        /\ tcalls[t].executed = 0
        /\ \E S \in {tcalls[t].result.attemptedSql} :
              /\ queryCache[S] # <<>>
              /\ tcalls[t].result.rows = queryCache[S][1].rows
              /\ clock - queryCache[S][1].cachedAt > 0
              /\ clock - queryCache[S][1].cachedAt < 300000

\* C17: an entry is inserted or overwritten only by the step in which an
\* execution (of the original text or of a repaired candidate) succeeds, and
\* then under the original text of that invocation; a step that ends an
\* invocation with a failure or a throw writes nothing.
C17_CacheWrittenOnSuccessOnly ==
    [][/\ \A S \in ToolSqls :
            (queryCache'[S] # <<>> /\ queryCache'[S] # queryCache[S]) =>
              \E t \in ToolIds :
                /\ tcalls[t].pc = "await" /\ tcalls[t].sql = S
                /\ tcalls'[t].pc = "done"
                /\ tcalls'[t].result.kind = "rows"
                /\ ~tcalls'[t].result.fromCache
                /\ tcalls'[t].result.attemptedSql = tcalls[t].cand
                /\ queryCache'[S] = <<[rows |-> tcalls[t].cand, cachedAt |-> clock]>>
       /\ \A t \in ToolIds :
            (tcalls[t].pc = "await"
                /\ tcalls'[t].result.kind \in {"failed", "threw"}) =>
              queryCache' = queryCache]_vars

\* C17 witness: the original text failed, a repaired candidate succeeded, and
\* its rows are stored under the original text.
C17_Witness ==
    \E t \in ToolIds, S \in ToolSqls :
        /\ tcalls[t].pc = "done" /\ tcalls[t].result.kind = "rows"
        /\ tcalls[t].result.repaired /\ ~tcalls[t].result.fromCache
        /\ queryCache[S] # <<>>
        /\ queryCache[S][1].rows = tcalls[t].result.attemptedSql
        /\ queryCache[S][1].rows # S

\* C18: an invocation never returns an entry that is 5 minutes old or older:
\* when it starts with a text whose entry is that old, the entry is removed
\* and the text goes to the driver.
C18_StaleEntryNotReturned ==
    [][\A t \in ToolIds :
         (tcalls[t].pc = "idle" /\ tcalls'[t].pc # "idle") =>
           \A S \in {StartedWith(tcalls'[t])} :
             (queryCache[S] # <<>>
                 /\ clock - queryCache[S][1].cachedAt >= 300000) =>
               /\ tcalls'[t].pc = "await"
               /\ tcalls'[t].cand = S
               /\ tcalls'[t].executed = 1
               /\ ~tcalls'[t].result.fromCache
               /\ queryCache'[S] = <<>>]_vars

\* C18 witness: an invocation found the entry of its text too old, removed
\* it, and the text is at the driver.
C18_Witness ==
    \E t \in ToolIds :
        /\ tcalls[t].pc = "await" /\ tcalls[t].stale
        /\ tcalls[t].attempt = 0 /\ tcalls[t].cand = tcalls[t].sql
        /\ queryCache[tcalls[t].sql] = <<>>

\* C35 (as stated): every repaired text that is executed differs from the
\* text whose failure triggered the repair.
C35_RepairChangesTheText ==
    [][\A t \in ToolIds :
         (tcalls[t].pc = "await" /\ tcalls'[t].pc = "await"
             /\ tcalls'[t].executed > tcalls[t].executed) =>
           tcalls'[t].cand # tcalls[t].cand]_vars

\* C36 (as stated): in every result with rows, attemptedSql is the text whose
\* execution produced the rows, and repaired is true exactly when that text
\* differs from the text passed to the call, also for a result served from
\* the cache.
C36_AttemptedSqlProducedRows ==
    [][\A t \in ToolIds :
         (tcalls'[t].result.kind = "rows" /\ tcalls[t].result.kind # "rows") =>
           /\ tcalls'[t].result.rows = tcalls'[t].result.attemptedSql
           /\ tcalls[t].pc = "await" =>
                 (tcalls'[t].result.repaired
                     <=> tcalls'[t].result.attemptedSql # tcalls[t].sql)
           /\ tcalls[t].pc = "idle" => ~tcalls'[t].result.repaired]_vars

-----------------------------------------------------------------------------
(* Properties of runStatement (checked under SpecStatement).                 *)

\* C13: once the timer of a statement has fired, its promise does not stay
\* pending when the driver has answered the cancel (or the cancel threw), and
\* it is rejected with an error that isTimeout recognises, also when the
\* cancel threw or reported an error.
C13_TimeoutRejectsAsTimeout ==
    \A s \in StmtIds :
        (stmts[s].cancelled /\ stmts[s].cancel \in {"threw", "answered"}) =>
            /\ stmts[s].promise = "rejected"
            /\ isTimeout(stmts[s].error[1])

\* C38: a statement reports at most one outcome, which never changes; a
\* completion that arrives after the timer has fired is ignored (the promise
\* is not resolved by it and keeps its state); a completion that arrives
\* before the timer has fired clears the timer, and from then on the timer
\* never fires and cancel is never invoked for that statement.
C38_OneOutcomePerStatement ==
    /\ [](\A s \in StmtIds :
            /\ stmts[s].promise = "resolved" =>
                  ~stmts[s].cancelled /\ stmts[s].cancel = "none"
            /\ stmts[s].timer = "cleared" =>
                  /\ ~stmts[s].cancelled /\ stmts[s].cancel = "none"
                  /\ stmts[s].driver = "called"
                  /\ stmts[s].promise \in {"resolved", "rejected"}
            /\ (stmts[s].promise = "rejected") = (stmts[s].error # <<>>))
    /\ [][\A s \in StmtIds :
            /\ stmts[s].promise \in {"resolved", "rejected"} =>
                  /\ stmts'[s].promise = stmts[s].promise
                  /\ stmts'[s].error = stmts[s].error
            /\ (stmts[s].cancelled /\ stmts'[s].driver # stmts[s].driver) =>
                  /\ stmts'[s].promise = stmts[s].promise
                  /\ stmts'[s].error = stmts[s].error
            /\ (~stmts[s].cancelled /\ stmts'[s].driver # stmts[s].driver
                    /\ stmts[s].driver = "running") =>
                  stmts'[s].timer = "cleared"
            /\ stmts[s].timer = "cleared" => stmts'[s].timer = "cleared"]_vars

\* C38 witness: one statement completed with rows at the deadline, before
\* its timer fired, and its timer is cleared; for another the driver called
\* `complete` after the timer had fired, and only the cancel's answer
\* settled it.
C38_Witness ==
    \E s, t \in StmtIds :
        /\ stmts[s].promise = "resolved" /\ stmts[s].timer = "cleared"
        /\ stmtNow >= stmts[s].startedAt + StatementTimeoutMs
        /\ stmts[t].cancelled /\ stmts[t].driver = "called"
        /\ stmts[t].promise = "rejected" /\ stmts[t].cancel = "answered"

-----------------------------------------------------------------------------
(* Properties of the result cache under many texts (checked under            *)
(* SpecCacheSize).                                                           *)

\* C19: the result cache never holds more than 100 entries.
C19_CacheAtMostHundred == Cardinality(CachedKeys(sizedCache)) <= 100

-----------------------------------------------------------------------------
(* Properties of loadEntityYaml (checked under SpecEntity).                  *)

\* C20: any two calls that returned for the same name returned the same
\* entity object, whether one followed the other or they overlapped.
C20_SameEntityObject ==
    \A l, m \in LoadIds :
        (loads[l].pc = "returned" /\ loads[m].pc = "returned"
            /\ loads[l].name = loads[m].name) =>
          loads[l].entity = loads[m].entity

\* C21: a load that fails (missing file, parse error, schema violation, join
\* or metric-source violation) leaves the entity cache as it was; the cache
\* holds only entities whose file passes every check, so a later load of a
\* refused name reads and validates again.
C21_FailedLoadLeavesCache ==
    /\ [](\A n \in LoadNames : entityCache[n] # <<>> => LoadError(n) = "none")
    /\ [][\A l \in LoadIds :
            /\ (loads[l].pc # "threw" /\ loads'[l].pc = "threw") =>
                  /\ entityCache' = entityCache
                  /\ loads'[l].error = LoadError(loads[l].name)
            /\ (loads[l].pc = "idle" /\ loads'[l].pc # "idle"
                    /\ LoadError(loads'[l].name) # "none") =>
                  loads'[l].pc = "reading"]_vars

\* C21 witness: every kind of refusal has been thrown by some load, the same
\* name was refused twice, and the cache is empty.
C21_Witness ==
    /\ \E l, m \in LoadIds :
          /\ l # m
          /\ loads[l].pc = "threw" /\ loads[m].pc = "threw"
          /\ loads[l].name = loads[m].name /\ loads[l].error = "join"
    /\ \E l \in LoadIds : loads[l].pc = "threw" /\ loads[l].error = "metric"
    /\ \A n \in LoadNames : entityCache[n] = <<>>

\* A frame whose expression leads back to a field already on its stack.
Reentered(fr) == \E i, j \in 1..Len(fr.stack) : i < j /\ fr.stack[i] = fr.stack[j]

\* C22: an expansion that comes back to a field it is already expanding ends
\* with the cyclic-macro-expansion error: no call runs with the same field
\* twice on its stack, and the engine's call stack is never exhausted.
C22_CycleEndsWithCycleError ==
    /\ macroOut # "RangeError"
    /\ \A i \in 1..Len(frames) : frames[i].entered => ~Reentered(frames[i])

\* One more hop from the entities S along the edges E (along their direction
\* only, when directed).
NextHop(E, directed, S) ==
    S \cup {e[2] : e \in {d \in E : d[1] \in S}}
      \cup (IF directed THEN {} ELSE {e[1] : e \in {d \in E : d[2] \in S}})

\* The least number of edges of E from S to goal; -1 when there is no path.
RECURSIVE Hops(_, _, _, _, _)
Hops(E, directed, S, goal, k) ==
    IF goal \in S THEN k
    ELSE IF NextHop(E, directed, S) = S THEN -1
    ELSE Hops(E, directed, NextHop(E, directed, S), goal, k + 1)

\* The joins declared by the registry of a call, as a set.
DeclaredJoins(call) == {CandidateJoins[i] : i \in call.chosen}

\* The entities a call must reach.
Targets(call) == Range(call.required) \ {call.base}

\* C29: the edges computeJoinPath returns are declared joins (in either
\* direction) and hold, for every required entity other than the base, a path
\* from the base with as many joins as the shortest distance between them in
\* the undirected graph of the declared joins; the call fails exactly when
\* some required entity cannot be reached, and the error names the base and
\* that entity.
C29_JoinPathIsShortest ==
    joinOut # <<>> =>
        /\ joinOut[1].ok =
              (\A t \in Targets(joinIn[1]) :
                  Hops(DeclaredJoins(joinIn[1]), FALSE, {joinIn[1].base}, t, 0) >= 0)
        /\ joinOut[1].ok =>
              /\ \A e \in Range(joinOut[1].edges) :
                    e \in DeclaredJoins(joinIn[1])
                      \/ <<e[2], e[1]>> \in DeclaredJoins(joinIn[1])
              /\ \A t \in Targets(joinIn[1]) :
                    Hops(Range(joinOut[1].edges), TRUE, {joinIn[1].base}, t, 0)
                      = Hops(DeclaredJoins(joinIn[1]), FALSE, {joinIn[1].base}, t, 0)
        /\ ~joinOut[1].ok =>
              /\ joinOut[1].from = joinIn[1].base
              /\ joinOut[1].to \in Targets(joinIn[1])
              /\ Hops(DeclaredJoins(joinIn[1]), FALSE, {joinIn[1].base},
                      joinOut[1].to, 0) = -1

\* C29 witness: with every join declared, "ghost" and "users" are reached
\* from "accounts" by two joins each, though longer paths exist.
C29_Witness ==
    /\ joinIn # <<>> /\ joinOut # <<>>
    /\ joinIn[1].chosen = 1..Len(CandidateJoins)
    /\ joinIn[1].base = "accounts"
    /\ joinIn[1].required = <<"ghost", "users">>
    /\ joinOut[1].ok
    /\ joinOut[1].edges = <<<<"accounts", "companies">>, <<"companies", "ghost">>,
                            <<"accounts", "events">>, <<"events", "users">>>>

\* C23 (as stated): the SQL renderSQLFromPlan returns passes syntaxScan,
\* whatever field names, filter values and free-form filters the plan holds.
C23_RenderedSqlPassesSyntaxScan ==
    verdict # <<>> => verdict[1].syntaxOk

\* C24 (as stated): when renderSQLFromPlan returns SQL, semanticCheck of the
\* same plan, SQL and registry is ok.
C24_RenderedPlanPassesSemanticCheck ==
    verdict # <<>> => verdict[1].semanticOk

\* C30 (as stated): preflightGuard rejects a text exactly when syntaxScan
\* reports it for multiple statements or for a disallowed verb.
C30_PreflightAgreesWithSyntaxScan ==
    guardOut # <<>> =>
        (guardOut[1].preflightRejects <=>
            (guardOut[1].multipleStatements \/ guardOut[1].disallowedToken))

\* A call of attemptRepair has returned (it did not throw).
Repaired == repairOut # <<>> /\ ~repairOut[1].threw

\* C25 (as stated): for a timeout attemptRepair returns a candidate, and the
\* candidate has a LIMIT and no ORDER BY, whatever the text.
C25_TimeoutCandidateHasLimitNoOrderBy ==
    (Repaired /\ repairIn[1].err = ErrorOf(<<>>, <<>>, TRUE)) =>
        /\ repairOut[1].candidate # <<>>
        /\ HasLimit(repairOut[1].candidate[1].fixedSql)
        /\ "ORDER BY" \notin Range(repairOut[1].candidate[1].fixedSql)

\* The identifier occurs in the text outside single-quoted literals.
RECURSIVE OccursOutsideLiterals(_, _, _)
OccursOutsideLiterals(sql, ident, inString) ==
    IF sql = <<>> THEN FALSE
    ELSE IF Head(sql) = "'" THEN OccursOutsideLiterals(Tail(sql), ident, ~inString)
    ELSE (~inString /\ Head(sql) = ident)
            \/ OccursOutsideLiterals(Tail(sql), ident, inString)

\* C26 (as stated): for a column-not-found error whose identifier occurs in
\* the text outside literals and has a close match in an entity of the join
\* path, attemptRepair returns a text that differs from its input.
C26_MissingColumnIsSubstituted ==
    (/\ Repaired
     /\ Len(repairIn[1].err.cnf) = 1 /\ repairIn[1].err.amb = <<>>
     /\ OccursOutsideLiterals(repairIn[1].sql, repairIn[1].err.cnf[1], FALSE)
     /\ HasQualified(repairIn[1].plan, repairOut[1].matches[1])) =>
        /\ repairOut[1].candidate # <<>>
        /\ repairOut[1].candidate[1].fixedSql # repairIn[1].sql

\* The least edit distance from a missing identifier to a dimension of the
\* loaded entities; -1 without dimensions.
LeastDistance(target, plan) ==
    IF ColumnCandidates(NeededEntities(plan)) = {} THEN -1
    ELSE CHOOSE d \in 0..8 :
            /\ \E p \in ColumnCandidates(NeededEntities(plan)) :
                    ColumnScore(target, NeededEntities(plan), p) = d
            /\ \A p \in ColumnCandidates(NeededEntities(plan)) :
                    ColumnScore(target, NeededEntities(plan), p) >= d

OwnerCount(plan, col) ==
    Cardinality({e \in Range(NeededEntities(plan)) : col \in Range(EntityDims[e])})

C37_JoinPathStaysInRegistry ==
    (/\ joinOut # <<>> /\ joinOut[1].ok
     /\ joinIn[1].base \in RegistryKeys(RegistryOf(joinIn[1].chosen))
     /\ Range(joinIn[1].required)
            \subseteq RegistryKeys(RegistryOf(joinIn[1].chosen))) =>
        EntitySet(joinIn[1].base, joinOut[1].edges)
            \subseteq RegistryKeys(RegistryOf(joinIn[1].chosen))

====
